---- MODULE Spec2Model ----
(***************************************************************************)
(* Model of the Simbase data coordinator (coordinator.py) and of the parts *)
(* of the API client (api.py) it calls.  A JSON object / Python dict is a  *)
(* TLA+ function from key strings to values; a JSON array is a sequence.   *)
(* Every await of the code is a separate step: between two steps any other *)
(* coroutine (a reader, a command, a timer) may run.                       *)
(***************************************************************************)
EXTENDS Integers, Sequences, FiniteSets, TLC

VARIABLES
    _simcards,            \* coordinator._simcards : iccid -> sim dict
    _usage,               \* coordinator._usage    : iccid -> usage dict
    _account,             \* coordinator._account
    _balance,             \* coordinator._balance
    data,                 \* coordinator.data (None until the first success)
    last_update_success,  \* coordinator.last_update_success
    pc,                   \* per execution of _async_update_data: the await it is at
    pending,              \* refresh requests waiting for the scheduler
    cmd,                  \* the activate/deactivate command in flight, if any
    cyc,                  \* history: what the server answered in the current/last cycle
    pre,                  \* history: the accessors' values when the cycle started
    cmdlog,               \* history: outcome of the last command
    reqDuring,            \* history: requestRefresh calls during the cycle in flight
    cmdDuring,            \* history: a command issued one of them
    oper,                 \* the send-sms or bulk operation in flight, with its history
    fetch,                \* the paginated fetch in flight, with its history
    shared,               \* which sections of coordinator.data are the very dict
                          \* objects self._simcards / self._usage are bound to
    remote,               \* the remote account: what the server answers a cycle with
    entries,              \* hass.data[DOMAIN]: the registered coordinators, in order
    svc,                  \* the service call in flight, with its history
    flow,                 \* the config flow, with its history
    client,               \* the API client's session fields, with its history
    setups                \* history: how the last setup or unload of each entry ended

vars == <<_simcards, _usage, _account, _balance, data, last_update_success,
          pc, pending, cmd, cyc, pre, cmdlog, reqDuring, cmdDuring, oper, fetch,
          shared, remote, entries, svc, flow, client, setups>>

coordVars == <<_simcards, _usage, _account, _balance, data, last_update_success, shared>>
cmdVars   == <<cmd, cmdlog>>
reqVars   == <<reqDuring, cmdDuring>>
extVars   == <<remote, entries, svc, flow, client, setups>>
callVars  == <<oper, fetch, extVars>>

----------------------------------------------------------------------------
(* Python values *)

EmptyDict == [k \in {} |-> ""]
None      == [none |-> TRUE]

Has(d, k) == k \in DOMAIN d

\* d[k] = v, as a new dict
Put(d, k, v) == [x \in (DOMAIN d) \cup {k} |-> IF x = k THEN v ELSE d[x]]

\* bool(d.get(k)) for a string-valued key: absent (None) and "" are falsy
Truthy(d, k) == Has(d, k) /\ d[k] # ""

\* d.get(k1) or d.get(k2) or ... : the first truthy value; "" stands for the
\* falsy result (None or ""), which the callers only test for truth
RECURSIVE GetOr(_, _)
GetOr(d, keys) ==
    IF keys = <<>> THEN ""
    ELSE IF Truthy(d, Head(keys)) THEN d[Head(keys)]
    ELSE GetOr(d, Tail(keys))

\* d.get(k, 0) or 0 for a number-valued key
Num(d, k) == IF Has(d, k) THEN d[k] ELSE 0

\* str.lower() on the status strings the model uses
Lower(s) ==
    CASE s = "Enabled"  -> "enabled"
      [] s = "ENABLED"  -> "enabled"
      [] s = "Active"   -> "active"
      [] s = "Disabled" -> "disabled"
      [] s = "DISABLED" -> "disabled"
      [] s = "Inactive" -> "inactive"
      [] OTHER          -> s

----------------------------------------------------------------------------
(* The remote API's possible answers *)

\* SimbaseApiError and its subclasses (api.py)
ApiErrors == {"SimbaseAuthError", "SimbaseRateLimitError", "SimbaseApiError"}

BytesPerMB == 1048576

simA_on  == [iccid |-> "A", state |-> "enabled",
             current_month_usage |-> [data |-> 1048576, sms_mo |-> 1, sms_mt |-> 2],
             current_month_costs |-> [total |-> 150]]
simA_off == [iccid |-> "A", state |-> "disabled"]
simB     == [id |-> "B", status |-> "Active", carrier |-> "Op1", last_mcc |-> "302"]
simNoId  == [name |-> "x", state |-> "enabled"]

DeviceRecords == {simA_on, simA_off, simB, simNoId}

usageA == [iccid |-> "A", data |-> 1048576]
usageC == [iccid |-> "C", data |-> 5]

UsageRecords == {usageA, usageC}

MaxDevices == 2
MaxUsage   == 1

SeqsUpTo(S, n) == UNION {[1..k -> S] : k \in 0..n}

DeviceLists == SeqsUpTo(DeviceRecords, MaxDevices)
UsageLists  == SeqsUpTo(UsageRecords, MaxUsage)

AccountPayloads == {[currency |-> "USD"], [currency |-> "USD", balance |-> 10]}
BalancePayloads == {[balance |-> 7, currency |-> "USD"]}

\* the payloads of an account whose state is fixed
OpsAccount == [currency |-> "USD", balance |-> 10]
OpsBalance == [balance |-> 7, currency |-> "USD"]

----------------------------------------------------------------------------
(* _async_update_data: the pure parts *)

IccidAliases == <<"iccid", "ICCID", "id">>

\* for sim in simcards: iccid = ...; if iccid: self._simcards[iccid] = sim
RECURSIVE BuildDict(_, _)
BuildDict(list, acc) ==
    IF list = <<>> THEN acc
    ELSE LET rec   == Head(list)
             iccid == GetOr(rec, IccidAliases)
         IN  BuildDict(Tail(list), IF iccid # "" THEN Put(acc, iccid, rec) ELSE acc)

\* coordinator.data as a reader sees it after sims was written into the dict
\* self._simcards is bound to, or into its sim dicts: the published dict
\* holds a reference to self._simcards ("simcards": self._simcards), so a
\* write in place shows in it for as long as self._simcards is not rebound
Seen(sims) ==
    IF data # None /\ shared.simcards THEN [data EXCEPT !.simcards = sims] ELSE data

\* faulty variant: no usage payload is attached
MergeUsage_skip(sims, usage) == sims

\* for iccid, sim in self._simcards.items(): if iccid in self._usage: sim["usage"] = ...
MergeUsage(sims, usage) ==
    [i \in DOMAIN sims |->
        IF i \in DOMAIN usage THEN Put(sims[i], "usage", usage[i]) ELSE sims[i]]

OperatorAliases == <<"operator", "network", "carrier", "operator_name",
                     "network_name", "current_operator", "last_operator",
                     "connected_network">>

ExtractOperator(sim) ==
    LET operator == GetOr(sim, OperatorAliases)
        mcc      == GetOr(sim, <<"mcc", "last_mcc">>)
        mnc      == GetOr(sim, <<"mnc", "last_mnc">>)
        s1 == IF operator # "" THEN Put(sim, "network_operator", operator) ELSE sim
        s2 == IF mcc # "" THEN Put(s1, "mcc", mcc) ELSE s1
    IN  IF mnc # "" THEN Put(s2, "mnc", mnc) ELSE s2

\* the two loops that follow the usage fetch
Merged(sims, usage) ==
    LET m == MergeUsage(sims, usage) IN [i \in DOMAIN m |-> ExtractOperator(m[i])]

\* faulty variant: the status is compared as spelled
IsActive_nolower(sim) == GetOr(sim, <<"state", "status">>) \in {"enabled", "active"}

IsActive(sim) == Lower(GetOr(sim, <<"state", "status">>)) \in {"enabled", "active"}

CurrentMonth(sim) ==
    IF Has(sim, "current_month_usage") THEN sim["current_month_usage"] ELSE EmptyDict
CurrentCosts(sim) ==
    IF Has(sim, "current_month_costs") THEN sim["current_month_costs"] ELSE EmptyDict

\* sum of f[k] over the keys (one pass over self._simcards.values())
RECURSIVE SumOver(_, _)
SumOver(f, keys) ==
    IF keys = {} THEN 0
    ELSE LET k == CHOOSE x \in keys : TRUE
         IN  f[k] + SumOver(f, keys \ {k})

\* round(bytes / (1024 * 1024), 2), in hundredths of a MB (no input of the
\* model lies on a rounding tie)
HundredthsMB(bytes) == (bytes * 200 + BytesPerMB) \div (2 * BytesPerMB)

\* faulty variant: only a status known as inactive counts as inactive
Totals_knownonly(sims) ==
    LET D(s)   == Num(CurrentMonth(s), "data")
        Mo(s)  == Num(CurrentMonth(s), "sms_mo")
        Mt(s)  == Num(CurrentMonth(s), "sms_mt")
        Co(s)  == Num(CurrentCosts(s), "total")
        Act(s) == IF IsActive(s) THEN 1 ELSE 0
        Ina(s) == IF Lower(GetOr(s, <<"state", "status">>)) \in {"disabled", "inactive"}
                  THEN 1 ELSE 0
        ks     == DOMAIN sims
        Sum(F(_)) == SumOver([k \in ks |-> F(sims[k])], ks)
        bytes  == Sum(D)
        sent   == Sum(Mo)
        recv   == Sum(Mt)
    IN  [data_usage_bytes |-> bytes,
         data_usage_mb    |-> HundredthsMB(bytes),
         total_cost       |-> Sum(Co),
         active_sims      |-> Sum(Act),
         inactive_sims    |-> Sum(Ina),
         sms_sent         |-> sent,
         sms_received     |-> recv,
         sms_total        |-> sent + recv]

\* the "totals" dict; total_cost is in cents
Totals(sims) ==
    LET D(s)   == Num(CurrentMonth(s), "data")
        Mo(s)  == Num(CurrentMonth(s), "sms_mo")
        Mt(s)  == Num(CurrentMonth(s), "sms_mt")
        Co(s)  == Num(CurrentCosts(s), "total")
        Act(s) == IF IsActive(s) THEN 1 ELSE 0
        Ina(s) == IF IsActive(s) THEN 0 ELSE 1
        ks     == DOMAIN sims
        Sum(F(_)) == SumOver([k \in ks |-> F(sims[k])], ks)
        bytes  == Sum(D)
        sent   == Sum(Mo)
        recv   == Sum(Mt)
    IN  [data_usage_bytes |-> bytes,
         data_usage_mb    |-> HundredthsMB(bytes),
         total_cost       |-> Sum(Co),
         active_sims      |-> Sum(Act),
         inactive_sims    |-> Sum(Ina),
         sms_sent         |-> sent,
         sms_received     |-> recv,
         sms_total        |-> sent + recv]

\* the dict _async_update_data returns
Snapshot(sims, usage, account, balance) ==
    [simcards |-> sims, usage |-> usage, count |-> Cardinality(DOMAIN sims),
     account |-> account, balance |-> balance, totals |-> Totals(sims)]

----------------------------------------------------------------------------
(* The coordinator's read accessors *)

Identifiers == {"A", "B", "C"}

get_simcard(iccid) == IF iccid \in DOMAIN _simcards THEN _simcards[iccid] ELSE None
get_all_simcards   == _simcards
get_account_data   == _account
get_balance        == _balance
get_totals         == IF data # None THEN data.totals ELSE EmptyDict

\* what a reader gets from the five accessors
Accessors ==
    [simcard  |-> [i \in Identifiers |-> get_simcard(i)],
     simcards |-> get_all_simcards, account |-> get_account_data,
     balance  |-> get_balance, totals |-> get_totals]

----------------------------------------------------------------------------
(* How an awaited call of the API client ends *)

Return(v) == [raised |-> FALSE, err |-> "", val |-> v]
Raise(e)  == [raised |-> TRUE, err |-> e, val |-> EmptyDict]

\* api.get_account(): try: return await self._request(...)
\*                    except SimbaseApiError: return {}
api_get_account(req) == IF req.raised THEN Return(EmptyDict) ELSE Return(req.val)

\* faulty variant: the whole account payload is returned as the balance
api_get_balance_fallback_whole(account) ==
    IF ~account.raised /\ Has(account.val, "balance")
    THEN Return(account.val)
    ELSE Return(EmptyDict)

\* api.get_balance() after its balance request raised: the account is asked
\* for, and its "balance" field, if any, is wrapped; an error is passed over
api_get_balance_fallback(account) ==
    IF ~account.raised /\ Has(account.val, "balance")
    THEN Return([balance |-> account.val["balance"]])
    ELSE Return(EmptyDict)

\* the coordinator's try: x = await ...  except SimbaseApiError: x = {}
OrEmpty(ret) == IF ret.raised THEN EmptyDict ELSE ret.val

----------------------------------------------------------------------------
(* Executions of _async_update_data *)

Slots == {1, 2}

InFlight == {s \in Slots : pc[s] # "idle"}

\* history of one cycle: how each request ended ("none", "ok", "err"), the
\* usable identifiers of the fetched device list, the payload of the fallback
\* account request, what api.get_balance() returned, the cycle's result and
\* the result of the cycle completed before it
NoCycle ==
    [simcards |-> "none", ids |-> {}, usage |-> "none", account |-> "none",
     balance |-> "none", fallback |-> "none", fallbackVal |-> EmptyDict,
     balanceRet |-> Return(EmptyDict), result |-> "none", prev |-> "none"]

\* the identifiers of the records of a device list that have one
UsableIds(list) ==
    {GetOr(list[i], IccidAliases) : i \in 1..Len(list)} \ {""}

\* the result of the most recently completed cycle
LastCompleted == IF cyc.result \in {"success", "failed"} THEN cyc.result ELSE cyc.prev

----------------------------------------------------------------------------
(* The refresh scheduler: the timer, requestRefresh and the start of a cycle *)

\* faulty variant: every request is queued
Enqueue_each(p) == p + 1

\* a refresh request is enqueued; a second one while one is pending is a no-op
Enqueue(p) == IF p = 0 THEN 1 ELSE p

MaxReq == 3

\* async_request_refresh(), called by a command (byCmd) or by a collaborator
RequestRefreshEffect(byCmd) ==
    /\ InFlight # {} => reqDuring < MaxReq
    /\ pending' = Enqueue(pending)
    /\ reqDuring' = IF InFlight # {} THEN reqDuring + 1 ELSE reqDuring
    /\ cmdDuring' = IF InFlight # {} /\ byCmd THEN TRUE ELSE cmdDuring

\* the poll interval elapses
TimerTick ==
    /\ pending' = Enqueue(pending)
    /\ UNCHANGED <<callVars, coordVars, pc, cmdVars, cyc, pre, reqVars>>

\* requestRefresh() called by a collaborator
RequestRefresh ==
    /\ RequestRefreshEffect(FALSE)
    /\ UNCHANGED <<callVars, coordVars, pc, cmdVars, cyc, pre>>

\* faulty variant: a pending request starts a cycle whether or not one is running
StartCycle_any(s) ==
    /\ pending > 0
    /\ pc[s] = "idle"
    /\ \A t \in Slots : pc[t] = "idle" => s <= t
    /\ pending' = pending - 1
    /\ pc' = [pc EXCEPT ![s] = "get_all_simcards"]
    /\ cyc' = [NoCycle EXCEPT !.result = "running", !.prev = LastCompleted]
    /\ pre' = Accessors
    /\ reqDuring' = 0
    /\ cmdDuring' = FALSE
    /\ UNCHANGED <<callVars, coordVars, cmdVars>>

\* the scheduler starts a refresh cycle: only when one is pending and none runs
StartCycle(s) ==
    /\ pending > 0
    /\ InFlight = {}
    /\ pc[s] = "idle"
    /\ \A t \in Slots : pc[t] = "idle" => s <= t
    /\ pending' = pending - 1
    /\ pc' = [pc EXCEPT ![s] = "get_all_simcards"]
    /\ cyc' = [NoCycle EXCEPT !.result = "running", !.prev = LastCompleted]
    /\ pre' = Accessors
    /\ reqDuring' = 0
    /\ cmdDuring' = FALSE
    /\ UNCHANGED <<callVars, coordVars, cmdVars>>

----------------------------------------------------------------------------
(* _async_update_data, one action per await *)

\* faulty variant: self._simcards is reset before the fetch is awaited
SimcardsFail_reset(s, err) ==
    /\ pc[s] = "get_all_simcards"
    /\ _simcards' = EmptyDict
    /\ last_update_success' = FALSE
    /\ pc' = [pc EXCEPT ![s] = "idle"]
    /\ cyc' = [cyc EXCEPT !.simcards = "err", !.result = "failed"]
    /\ UNCHANGED <<callVars, shared, _usage, _account, _balance, data, pending, cmdVars, pre, reqVars>>

\* faulty variant: the error is swallowed and the old dict returned instead of
\* raising UpdateFailed
SimcardsFail_swallow(s, err) ==
    /\ pc[s] = "get_all_simcards"
    /\ last_update_success' = TRUE
    /\ pc' = [pc EXCEPT ![s] = "idle"]
    /\ cyc' = [cyc EXCEPT !.simcards = "err", !.result = "failed"]
    /\ UNCHANGED <<callVars, shared, _simcards, _usage, _account, _balance, data, pending, cmdVars,
                   pre, reqVars>>

\* await get_all_simcards() raised: except SimbaseApiError -> raise UpdateFailed
SimcardsFail(s, err) ==
    /\ pc[s] = "get_all_simcards"
    /\ last_update_success' = FALSE
    /\ pc' = [pc EXCEPT ![s] = "idle"]
    /\ cyc' = [cyc EXCEPT !.simcards = "err", !.result = "failed"]
    /\ UNCHANGED <<callVars, shared, _simcards, _usage, _account, _balance, data, pending, cmdVars,
                   pre, reqVars>>

\* faulty variant: the dict self._simcards is bound to is cleared and filled
\* again instead of being replaced by a new one
SimcardsReturn_inplace(s, list) ==
    /\ pc[s] = "get_all_simcards"
    /\ _simcards' = BuildDict(list, EmptyDict)
    /\ data' = Seen(_simcards')
    /\ pc' = [pc EXCEPT ![s] = "get_all_usage"]
    /\ cyc' = [cyc EXCEPT !.simcards = "ok", !.ids = UsableIds(list)]
    /\ pre' = None
    /\ UNCHANGED <<callVars, shared, _usage, _account, _balance, last_update_success,
                   pending, cmdVars, reqVars>>

\* faulty variant: a record without identifier fails the cycle
SimcardsReturn_strict(s, list) ==
    /\ pc[s] = "get_all_simcards"
    /\ IF \E i \in 1..Len(list) : GetOr(list[i], IccidAliases) = ""
       THEN /\ last_update_success' = FALSE
            /\ pc' = [pc EXCEPT ![s] = "idle"]
            /\ cyc' = [cyc EXCEPT !.simcards = "ok", !.result = "failed"]
            /\ UNCHANGED <<_simcards, shared, pre>>
       ELSE /\ _simcards' = BuildDict(list, EmptyDict)
            /\ pc' = [pc EXCEPT ![s] = "get_all_usage"]
            /\ shared' = [shared EXCEPT !.simcards = FALSE]
            /\ cyc' = [cyc EXCEPT !.simcards = "ok", !.ids = UsableIds(list)]
            /\ pre' = None
            /\ UNCHANGED last_update_success
    /\ UNCHANGED <<callVars, _usage, _account, _balance, data, pending, cmdVars, reqVars>>

\* await get_all_simcards() returned: self._simcards is rebuilt, then the
\* usage fetch is awaited
SimcardsReturn(s, list) ==
    /\ pc[s] = "get_all_simcards"
    /\ _simcards' = BuildDict(list, EmptyDict)
    /\ pc' = [pc EXCEPT ![s] = "get_all_usage"]
    /\ shared' = [shared EXCEPT !.simcards = FALSE]
    /\ cyc' = [cyc EXCEPT !.simcards = "ok", !.ids = UsableIds(list)]
    /\ pre' = None
    /\ UNCHANGED <<callVars, _usage, _account, _balance, data, last_update_success, pending,
                   cmdVars, reqVars>>

\* await get_all_usage() returned: self._usage is rebuilt, usage and operator
\* are merged into the sims, then the account fetch is awaited
UsageReturn(s, list) ==
    /\ pc[s] = "get_all_usage"
    /\ _usage' = BuildDict(list, EmptyDict)
    /\ _simcards' = Merged(_simcards, _usage')
    /\ shared' = [shared EXCEPT !.usage = FALSE]
    /\ data' = Seen(_simcards')
    /\ pc' = [pc EXCEPT ![s] = "get_account"]
    /\ cyc' = [cyc EXCEPT !.usage = "ok"]
    /\ UNCHANGED <<callVars, _account, _balance, last_update_success, pending, cmdVars,
                   pre, reqVars>>

\* await get_all_usage() raised: logged, self._usage is left as it is; the
\* merge loops run all the same
UsageFail(s, err) ==
    /\ pc[s] = "get_all_usage"
    /\ _simcards' = Merged(_simcards, _usage)
    /\ data' = Seen(_simcards')
    /\ pc' = [pc EXCEPT ![s] = "get_account"]
    /\ cyc' = [cyc EXCEPT !.usage = "err"]
    /\ UNCHANGED <<callVars, shared, _usage, _account, _balance, last_update_success, pending,
                   cmdVars, pre, reqVars>>

\* await api.get_account(): the account request returned
AccountReturn(s, payload) ==
    /\ pc[s] = "get_account"
    /\ _account' = OrEmpty(api_get_account(Return(payload)))
    /\ pc' = [pc EXCEPT ![s] = "get_balance"]
    /\ cyc' = [cyc EXCEPT !.account = "ok"]
    /\ UNCHANGED <<callVars, shared, _simcards, _usage, _balance, data, last_update_success, pending,
                   cmdVars, pre, reqVars>>

\* faulty variant: a failed account request leaves self._account as it is
AccountFail_stale(s, err) ==
    /\ pc[s] = "get_account"
    /\ pc' = [pc EXCEPT ![s] = "get_balance"]
    /\ cyc' = [cyc EXCEPT !.account = "err"]
    /\ UNCHANGED <<callVars, shared, _simcards, _usage, _account, _balance, data, last_update_success,
                   pending, cmdVars, pre, reqVars>>

\* await api.get_account(): the account request raised
AccountFail(s, err) ==
    /\ pc[s] = "get_account"
    /\ _account' = OrEmpty(api_get_account(Raise(err)))
    /\ pc' = [pc EXCEPT ![s] = "get_balance"]
    /\ cyc' = [cyc EXCEPT !.account = "err"]
    /\ UNCHANGED <<callVars, shared, _simcards, _usage, _balance, data, last_update_success, pending,
                   cmdVars, pre, reqVars>>

\* faulty variant: the SMS counters go on from those of the snapshot before
Publish_accumulate(s, ret) ==
    /\ _balance' = OrEmpty(ret)
    /\ LET new == Snapshot(_simcards, _usage, _account, _balance')
           old == IF data # None THEN data.totals ELSE Totals(EmptyDict)
       IN  data' = [new EXCEPT !.totals.sms_sent = @ + old.sms_sent,
                               !.totals.sms_received = @ + old.sms_received,
                               !.totals.sms_total = @ + old.sms_total]
    /\ shared' = [simcards |-> TRUE, usage |-> TRUE]
    /\ last_update_success' = TRUE
    /\ pc' = [pc EXCEPT ![s] = "idle"]
    /\ UNCHANGED <<callVars, _simcards, _usage, _account, pending, cmdVars, pre, reqVars>>

\* the rest of the cycle once api.get_balance() has ended with ret: the totals
\* are computed, the dict is returned and becomes coordinator.data
Publish(s, ret) ==
    /\ _balance' = OrEmpty(ret)
    /\ data' = Snapshot(_simcards, _usage, _account, _balance')
    /\ shared' = [simcards |-> TRUE, usage |-> TRUE]
    /\ last_update_success' = TRUE
    /\ pc' = [pc EXCEPT ![s] = "idle"]
    /\ UNCHANGED <<callVars, _simcards, _usage, _account, pending, cmdVars, pre, reqVars>>

\* api.get_balance(): the balance request returned
BalanceReturn(s, payload) ==
    /\ pc[s] = "get_balance"
    /\ cyc' = [cyc EXCEPT !.balance = "ok", !.balanceRet = Return(payload),
                          !.result = "success"]
    /\ Publish(s, Return(payload))

\* api.get_balance(): the balance request raised; get_account() is awaited
BalanceFail(s, err) ==
    /\ pc[s] = "get_balance"
    /\ pc' = [pc EXCEPT ![s] = "get_balance_account"]
    /\ cyc' = [cyc EXCEPT !.balance = "err"]
    /\ UNCHANGED <<callVars, coordVars, pending, cmdVars, pre, reqVars>>

\* api.get_balance(): the fallback account request returned
FallbackReturn(s, payload) ==
    LET ret == api_get_balance_fallback(api_get_account(Return(payload)))
    IN  /\ pc[s] = "get_balance_account"
        /\ cyc' = [cyc EXCEPT !.fallback = "ok", !.fallbackVal = payload,
                              !.balanceRet = ret, !.result = "success"]
        /\ Publish(s, ret)

\* api.get_balance(): the fallback account request raised
FallbackFail(s, err) ==
    LET ret == api_get_balance_fallback(api_get_account(Raise(err)))
    IN  /\ pc[s] = "get_balance_account"
        /\ cyc' = [cyc EXCEPT !.fallback = "err", !.balanceRet = ret,
                              !.result = "success"]
        /\ Publish(s, ret)

----------------------------------------------------------------------------
(* async_activate_simcard / async_deactivate_simcard *)

CmdIds == {"A", "B"}
CmdOps == {"activate", "deactivate"}

NoCmd == [pc |-> "idle", op |-> "", iccid |-> ""]

\* history of a command: how the remote call ended, what the caller got, and
\* whether the command requested a refresh
NoLog == [remote |-> "none", result |-> "none", refresh |-> FALSE, op |-> "", iccid |-> ""]

\* the command is called and awaits api_client.(de)activate_simcard(iccid)
CallCommand(op, iccid) ==
    /\ cmd.pc = "idle"
    /\ cmd' = [pc |-> "remote", op |-> op, iccid |-> iccid]
    /\ cmdlog' = [NoLog EXCEPT !.op = op, !.iccid = iccid]
    /\ UNCHANGED <<callVars, coordVars, pc, pending, cyc, pre, reqVars>>

\* faulty variant: the command writes the new state into the local snapshot
CommandOk_optimistic ==
    /\ cmd.pc = "remote"
    /\ RequestRefreshEffect(TRUE)
    /\ _simcards' = IF cmd.iccid \in DOMAIN _simcards
                    THEN [_simcards EXCEPT ![cmd.iccid] =
                            Put(@, "state", IF cmd.op = "activate" THEN "enabled"
                                            ELSE "disabled")]
                    ELSE _simcards
    /\ cmd' = NoCmd
    /\ cmdlog' = [cmdlog EXCEPT !.remote = "ok", !.result = "ok", !.refresh = TRUE]
    /\ UNCHANGED <<callVars, shared, _usage, _account, _balance, data, last_update_success, pc, cyc, pre>>

\* the remote call returned: await self.async_request_refresh()
CommandOk ==
    /\ cmd.pc = "remote"
    /\ RequestRefreshEffect(TRUE)
    /\ cmd' = NoCmd
    /\ cmdlog' = [cmdlog EXCEPT !.remote = "ok", !.result = "ok", !.refresh = TRUE]
    /\ UNCHANGED <<callVars, coordVars, pc, cyc, pre>>

\* faulty variant: the refresh is requested in a finally clause
CommandFail_refresh(err) ==
    /\ cmd.pc = "remote"
    /\ RequestRefreshEffect(TRUE)
    /\ cmd' = NoCmd
    /\ cmdlog' = [cmdlog EXCEPT !.remote = err, !.result = err]
    /\ UNCHANGED <<callVars, coordVars, pc, cyc, pre>>

\* the remote call raised: the error propagates to the caller (the switch
\* logs it and re-raises it)
CommandFail(err) ==
    /\ cmd.pc = "remote"
    /\ cmd' = NoCmd
    /\ cmdlog' = [cmdlog EXCEPT !.remote = err, !.result = err]
    /\ UNCHANGED <<callVars, coordVars, pc, pending, cyc, pre, reqVars>>

----------------------------------------------------------------------------
(* async_send_sms and the bulk operations (coordinator.py), which call        *)
(* activate_all_simcards / deactivate_all_simcards (api.py)                   *)

OpKinds   == {"send_sms", "activate_all", "deactivate_all"}
BulkKinds == {"activate_all", "deactivate_all"}

\* the operation in flight: where it is, the device list it fetched, the index
\* of the device whose call is awaited, and the results list; history: the
\* remote calls it issued, the API errors they raised, how the operation ended
\* ("returned" or the error raised to the caller), the number of
\* async_request_refresh() calls and the number of remote calls issued before
\* the last of them
NoOp ==
    [kind |-> "none", pc |-> "idle", iccid |-> "", listed |-> "none", list |-> <<>>,
     i |-> 0, results |-> <<>>, calls |-> <<>>, errs |-> <<>>, outcome |-> "none",
     refreshes |-> 0, refreshAt |-> 0]

simC_inactive  == [iccid |-> "C", status |-> "Inactive"]
simD_suspended == [iccid |-> "D", state |-> "suspended"]
simE_disabled  == [iccid |-> "E", state |-> "DISABLED", status |-> "active"]

\* the device lists the server answers a bulk operation with
BulkRecords == {simA_on, simA_off, simB, simNoId, simC_inactive, simD_suspended,
                simE_disabled}
MaxBulk == 2
BulkDeviceLists == SeqsUpTo(BulkRecords, MaxBulk)

\* the JSON a successful activate/deactivate/sms call answers with
CallPayloads == {[status |-> "ok"]}

\* (simcard.get("state") or simcard.get("status") or "").lower()
BulkState(simcard) == Lower(GetOr(simcard, <<"state", "status">>))

\* activate_all_simcards: if iccid and state in ("disabled", "inactive")
activate_all_matches(simcard) ==
    Truthy(simcard, "iccid") /\ BulkState(simcard) \in {"disabled", "inactive"}

\* deactivate_all_simcards: if iccid and state in ("enabled", "active")
deactivate_all_matches(simcard) ==
    Truthy(simcard, "iccid") /\ BulkState(simcard) \in {"enabled", "active"}

\* faulty variant: the state string is compared without lower-casing it
BulkMatches_nolower(kind, simcard) ==
    /\ Truthy(simcard, "iccid")
    /\ GetOr(simcard, <<"state", "status">>) \in
          (IF kind = "activate_all" THEN {"disabled", "inactive"}
           ELSE {"enabled", "active"})

\* the filter of the bulk operation of the given kind
BulkMatches(kind, simcard) ==
    IF kind = "activate_all" THEN activate_all_matches(simcard)
    ELSE deactivate_all_matches(simcard)

\* the for loop up to its next await: the index of the first matching device
\* after position i, or Len(list) + 1 when the loop is over
NextMatch(kind, list, i) ==
    LET js == {j \in (i + 1)..Len(list) : BulkMatches(kind, list[j])}
    IN  IF js = {} THEN Len(list) + 1
        ELSE CHOOSE j \in js : \A k \in js : j <= k

\* the remote call the operation awaits at device i
BulkCall(o) ==
    [fn |-> IF o.kind = "activate_all" THEN "activate_simcard" ELSE "deactivate_simcard",
     iccid |-> o.list[o.i]["iccid"]]

\* the loop goes on from position o.i: either the call for the next matching
\* device is issued and awaited, or the loop is over, the results are
\* returned to the coordinator, which calls async_request_refresh() and
\* returns them
BulkAdvance(o) ==
    LET j == NextMatch(o.kind, o.list, o.i)
    IN  IF j <= Len(o.list)
        THEN LET n == [o EXCEPT !.i = j, !.pc = "call"]
             IN  /\ oper' = [n EXCEPT !.calls = Append(@, BulkCall(n))]
                 /\ UNCHANGED <<pending, reqVars>>
        ELSE /\ oper' = [o EXCEPT !.i = j, !.pc = "done", !.outcome = "returned",
                                !.refreshes = @ + 1, !.refreshAt = Len(o.calls)]
             /\ RequestRefreshEffect(TRUE)

\* async_send_sms(iccid, message) is called: await api_client.send_sms(...)
CallSendSms(iccid) ==
    /\ oper.pc \in {"idle", "done"}
    /\ oper' = [NoOp EXCEPT !.kind = "send_sms", !.pc = "remote", !.iccid = iccid,
                          !.calls = <<[fn |-> "send_sms", iccid |-> iccid]>>]
    /\ UNCHANGED <<coordVars, pc, pending, cmdVars, cyc, pre, reqVars, fetch, extVars>>

\* faulty variant: the refresh is requested as after activate/deactivate
SendSmsOk_refresh(payload) ==
    /\ oper.kind = "send_sms" /\ oper.pc = "remote"
    /\ oper' = [oper EXCEPT !.pc = "done", !.outcome = "returned",
                        !.refreshes = @ + 1, !.refreshAt = Len(oper.calls)]
    /\ RequestRefreshEffect(TRUE)
    /\ UNCHANGED <<coordVars, pc, cmdVars, cyc, pre, fetch, extVars>>

\* send_sms returned: async_send_sms returns None
SendSmsOk(payload) ==
    /\ oper.kind = "send_sms" /\ oper.pc = "remote"
    /\ oper' = [oper EXCEPT !.pc = "done", !.outcome = "returned"]
    /\ UNCHANGED <<coordVars, pc, pending, cmdVars, cyc, pre, reqVars, fetch, extVars>>

\* send_sms raised: the error propagates to the caller
SendSmsFail(err) ==
    /\ oper.kind = "send_sms" /\ oper.pc = "remote"
    /\ oper' = [oper EXCEPT !.pc = "done", !.outcome = err, !.errs = Append(@, err)]
    /\ UNCHANGED <<coordVars, pc, pending, cmdVars, cyc, pre, reqVars, fetch, extVars>>

\* async_activate_all_simcards / async_deactivate_all_simcards is called:
\* results = []; simcards = await self.get_all_simcards()
CallBulk(kind) ==
    /\ oper.pc \in {"idle", "done"}
    /\ oper' = [NoOp EXCEPT !.kind = kind, !.pc = "list"]
    /\ UNCHANGED <<coordVars, pc, pending, cmdVars, cyc, pre, reqVars, fetch, extVars>>

\* get_all_simcards() raised: the call is outside the try, so the error
\* leaves the bulk operation and the coordinator method that awaits it
BulkListFail(err) ==
    /\ oper.kind \in BulkKinds /\ oper.pc = "list"
    /\ oper' = [oper EXCEPT !.pc = "done", !.listed = "err", !.outcome = err,
                        !.errs = Append(@, err)]
    /\ UNCHANGED <<coordVars, pc, pending, cmdVars, cyc, pre, reqVars, fetch, extVars>>

\* get_all_simcards() returned: the loop starts
BulkListReturn(list) ==
    /\ oper.kind \in BulkKinds /\ oper.pc = "list"
    /\ BulkAdvance([oper EXCEPT !.listed = "ok", !.list = list])
    /\ UNCHANGED <<coordVars, pc, cmdVars, cyc, pre, fetch, extVars>>

\* faulty variant: the refresh is requested after every call
BulkItemOk_refresh(payload) ==
    /\ oper.kind \in BulkKinds /\ oper.pc = "call"
    /\ oper' = [oper EXCEPT !.pc = "sleep", !.refreshes = @ + 1,
                        !.refreshAt = Len(oper.calls),
                        !.results = Append(@, [iccid |-> BulkCall(oper).iccid,
                                               success |-> TRUE, result |-> payload])]
    /\ RequestRefreshEffect(TRUE)
    /\ UNCHANGED <<coordVars, pc, cmdVars, cyc, pre, fetch, extVars>>

\* the call for device i returned: a success entry is appended, then
\* await asyncio.sleep(0.1)
BulkItemOk(payload) ==
    /\ oper.kind \in BulkKinds /\ oper.pc = "call"
    /\ oper' = [oper EXCEPT !.pc = "sleep",
                        !.results = Append(@, [iccid |-> BulkCall(oper).iccid,
                                               success |-> TRUE, result |-> payload])]
    /\ UNCHANGED <<coordVars, pc, pending, cmdVars, cyc, pre, reqVars, fetch, extVars>>

\* faulty variant: the first failure ends the batch
BulkItemFail_abort(err) ==
    /\ oper.kind \in BulkKinds /\ oper.pc = "call"
    /\ oper' = [oper EXCEPT !.pc = "done", !.outcome = "returned",
                        !.errs = Append(@, err),
                        !.refreshes = @ + 1, !.refreshAt = Len(oper.calls),
                        !.results = Append(@, [iccid |-> BulkCall(oper).iccid,
                                               success |-> FALSE, error |-> err])]
    /\ RequestRefreshEffect(TRUE)
    /\ UNCHANGED <<coordVars, pc, cmdVars, cyc, pre, fetch, extVars>>

\* faulty variant: the error of a per-device call is raised to the caller
BulkItemFail_raise(err) ==
    /\ oper.kind \in BulkKinds /\ oper.pc = "call"
    /\ oper' = [oper EXCEPT !.pc = "done", !.outcome = err, !.errs = Append(@, err)]
    /\ UNCHANGED <<coordVars, pc, pending, cmdVars, cyc, pre, reqVars, fetch, extVars>>

\* the call for device i raised an API error: a failure entry is appended,
\* then await asyncio.sleep(0.1)
BulkItemFail(err) ==
    /\ oper.kind \in BulkKinds /\ oper.pc = "call"
    /\ oper' = [oper EXCEPT !.pc = "sleep", !.errs = Append(@, err),
                        !.results = Append(@, [iccid |-> BulkCall(oper).iccid,
                                               success |-> FALSE, error |-> err])]
    /\ UNCHANGED <<coordVars, pc, pending, cmdVars, cyc, pre, reqVars, fetch, extVars>>

\* the sleep after a call is over: the loop goes on
BulkSleep ==
    /\ oper.kind \in BulkKinds /\ oper.pc = "sleep"
    /\ BulkAdvance(oper)
    /\ UNCHANGED <<coordVars, pc, cmdVars, cyc, pre, fetch, extVars>>

----------------------------------------------------------------------------
(* _request and the paginated fetchers get_all_simcards / get_all_usage       *)
(* (api.py)                                                                   *)

\* the statuses the server answers with; 300 is a status below 400 that the
\* HTTP client neither follows as a redirect nor rejects
HttpStatuses == {200, 201, 300, 400, 401, 404, 429, 500}

\* aiohttp's response.raise_for_status(): raises ClientResponseError when the
\* status is 400 or higher
raise_for_status(status) == status >= 400

\* the failures that are subclasses of aiohttp's ClientError; the timeout of
\* an exchange is asyncio.TimeoutError, which is none
ClientErrors == {"ClientConnectorError", "ClientConnectorDNSError"}

\* _request: how one HTTP exchange ends. response is [status, body] with the
\* decoded JSON body, or [neterr] when the exchange failed with the named
\* exception: except ClientError wraps it, any other exception passes
_request(response) ==
    IF "neterr" \in DOMAIN response
    THEN IF response.neterr \in ClientErrors THEN Raise("SimbaseApiError")
         ELSE Raise(response.neterr)
    ELSE IF response.status = 401 THEN Raise("SimbaseAuthError")
    ELSE IF response.status = 429 THEN Raise("SimbaseRateLimitError")
    ELSE IF raise_for_status(response.status) THEN Raise("SimbaseApiError")
    ELSE [raised |-> FALSE, err |-> "", val |-> response.body]

ItemAliases   == <<"data", "simcards", "items", "results">>
MoreAliases   == <<"has_more", "hasMore">>
CursorAliases == <<"cursor", "next_cursor", "nextCursor">>

\* one consistent choice of aliases: <<item container, has-more, cursor>>
AliasSets == {<<"data", "has_more", "cursor">>,
              <<"simcards", "hasMore", "next_cursor">>,
              <<"items", "has_more", "nextCursor">>,
              <<"results", "hasMore", "cursor">>}

\* A decoded JSON page is [list |-> items] (a raw array), [obj |-> object]
\* or [other |-> "null"]; the value under an item-container key of an object
\* is [arr |-> items] (an array) or [one |-> item] (a single object).
Envelope(al, items, more, cur) ==
    [obj |-> (al[1] :> [arr |-> items]) @@ (al[2] :> more) @@ (al[3] :> cur)]

\* pages after which the fetch goes on
MorePages ==
    {Envelope(al, <<simA_off>>, TRUE, "c1") : al \in AliasSets}
        \cup {Envelope(<<"data", "has_more", "cursor">>, <<>>, TRUE, "c2")}

\* pages that end the fetch
LastPages ==
    {Envelope(al, <<simB>>, FALSE, "c2") : al \in AliasSets}
        \cup {Envelope(al, <<simB>>, TRUE, "") : al \in AliasSets}
        \cup {[obj |-> "data" :> [arr |-> <<simB>>]],
              [obj |-> ("data" :> [one |-> simB]) @@ ("has_more" :> FALSE)],
              [obj |-> ("data" :> [arr |-> <<>>]) @@ ("simcards" :> [arr |-> <<simB>>])],
              [list |-> <<simA_off, simB>>], [list |-> <<>>], [other |-> "null"]}

Pages == MorePages \cup LastPages

\* pages without items
QuietPages == {Envelope(<<"data", "has_more", "cursor">>, <<>>, TRUE, "c2"),
               [list |-> <<>>], [other |-> "null"]}

HttpResponses == {[status |-> st, body |-> p] : st \in HttpStatuses, p \in Pages}
\* failed exchanges, by the exception the HTTP client raises: connection
\* refused, name resolution, and the session's total timeout
NetFailures   == {[neterr |-> "ClientConnectorError"],
                  [neterr |-> "ClientConnectorDNSError"],
                  [neterr |-> "TimeoutError"]}

MaxPages == 3

Fetchers == {"get_all_simcards", "get_all_usage"}

\* the fetch in flight: the function, where it is, its locals cursor and
\* simcards / usage_data (items), how it ended ("returned" or the exception
\* raised) and what it returned; history: the cursor parameter of every
\* request ("" for none) and the pages _request returned (both cut off
\* after MaxPages pages; truncated once there were more), the status of the
\* last response and how _request ended for it
NoFetch ==
    [fn |-> "none", pc |-> "idle", cursor |-> "", items |-> <<>>,
     outcome |-> "none", result |-> <<>>, sent |-> <<>>, served |-> <<>>,
     truncated |-> FALSE, status |-> 0, ret |-> "none"]

ContainerTruthy(v) ==
    IF "arr" \in DOMAIN v THEN Len(v.arr) > 0 ELSE DOMAIN v.one # {}

\* response.get("data") or response.get("simcards") or ... or []
RECURSIVE FirstContainer(_, _)
FirstContainer(response, keys) ==
    IF keys = <<>> THEN [arr |-> <<>>]
    ELSE IF Has(response, Head(keys)) /\ ContainerTruthy(response[Head(keys)])
         THEN response[Head(keys)]
         ELSE FirstContainer(response, Tail(keys))

\* response.get("has_more", False) or response.get("hasMore", False)
HasMore(response, keys) ==
    \E i \in 1..Len(keys) : Has(response, keys[i]) /\ response[keys[i]]

\* faulty variant: a raw array is taken for an unexpected response type
get_all_simcards_page_nolist(items, page) ==
    IF "obj" \in DOMAIN page
    THEN LET response  == page.obj
             container == FirstContainer(response, ItemAliases)
             simcards  == IF "arr" \in DOMAIN container THEN items \o container.arr
                          ELSE Append(items, container.one)
             has_more  == HasMore(response, MoreAliases)
             cursor    == GetOr(response, CursorAliases)
         IN  [items |-> simcards, stop |-> ~has_more \/ cursor = "",
              cursor |-> IF has_more THEN cursor ELSE "", raised |-> ""]
    ELSE [items |-> items, stop |-> TRUE, cursor |-> "", raised |-> ""]

\* faulty variant: only the aliases data, has_more and cursor are read
get_all_simcards_page_dataonly(items, page) ==
    IF "list" \in DOMAIN page
    THEN [items |-> items \o page.list, stop |-> TRUE, cursor |-> "", raised |-> ""]
    ELSE IF "obj" \in DOMAIN page
    THEN LET response  == page.obj
             container == FirstContainer(response, <<"data">>)
             simcards  == IF "arr" \in DOMAIN container THEN items \o container.arr
                          ELSE Append(items, container.one)
             has_more  == HasMore(response, <<"has_more">>)
             cursor    == GetOr(response, <<"cursor">>)
         IN  [items |-> simcards, stop |-> ~has_more \/ cursor = "",
              cursor |-> IF has_more THEN cursor ELSE "", raised |-> ""]
    ELSE [items |-> items, stop |-> TRUE, cursor |-> "", raised |-> ""]

\* What one iteration of the while loop does with the page _request
\* returned: the new item list, whether the loop ends, the next cursor, and
\* the exception the iteration raises ("" for none).
get_all_simcards_page(items, page) ==
    IF "list" \in DOMAIN page
    THEN [items |-> items \o page.list, stop |-> TRUE, cursor |-> "", raised |-> ""]
    ELSE IF "obj" \in DOMAIN page
    THEN LET response == page.obj
             container == FirstContainer(response, ItemAliases)
             simcards == IF "arr" \in DOMAIN container THEN items \o container.arr
                         ELSE Append(items, container.one)
             has_more == HasMore(response, MoreAliases)
             cursor   == GetOr(response, CursorAliases)
         IN  [items |-> simcards, stop |-> ~has_more \/ cursor = "",
              cursor |-> IF has_more THEN cursor ELSE "", raised |-> ""]
    ELSE [items |-> items, stop |-> TRUE, cursor |-> "", raised |-> ""]

\* get_all_usage calls response.get on whatever _request returned: a page
\* that is no object raises AttributeError
get_all_usage_page(items, page) ==
    IF "obj" \notin DOMAIN page
    THEN [items |-> items, stop |-> TRUE, cursor |-> "", raised |-> "AttributeError"]
    ELSE LET response == page.obj
             container     == IF Has(response, "data") THEN response["data"]
                         ELSE [arr |-> <<>>]
             has_more == HasMore(response, <<"has_more">>)
             cursor   == GetOr(response, <<"cursor">>)
         IN  [items |-> items \o container.arr, stop |-> ~has_more \/ cursor = "",
              cursor |-> IF has_more THEN cursor ELSE "", raised |-> ""]

PageStep(fn, items, page) ==
    IF fn = "get_all_simcards" THEN get_all_simcards_page(items, page)
    ELSE get_all_usage_page(items, page)

\* get_all_simcards run over a sequence of pages _request returned: whether
\* its loop ended, the items gathered, and the number of pages it consumed
\* (one request each)
RECURSIVE get_all_simcards_over(_, _, _)
get_all_simcards_over(pages, items, used) ==
    IF pages = <<>> THEN [done |-> FALSE, items |-> items, used |-> used]
    ELSE LET step == get_all_simcards_page(items, Head(pages))
         IN  IF step.stop
             THEN [done |-> TRUE, items |-> step.items, used |-> used + 1]
             ELSE get_all_simcards_over(Tail(pages), step.items, used + 1)

\* the client as SimbaseApiClient(api_key, session) constructs it, session
\* being "none" or the session handed in; open, closed and used are history:
\* the sessions the client opened and has not closed, those it closed, and
\* those its requests went over
NewClient(session) ==
    [_session |-> session, _own_session |-> FALSE, created |-> 0,
     open |-> {}, closed |-> {}, used |-> {}, torn |-> FALSE]

\* faulty variant: a new session is created for every request
_get_session_fresh(c) ==
    LET new == IF c.created = 0 THEN "own1" ELSE "own2"
    IN  [c EXCEPT !._session = new, !._own_session = TRUE,
                  !.created = IF @ < 2 THEN @ + 1 ELSE @,
                  !.open = @ \cup {new}, !.used = @ \cup {new}]

\* _get_session(), as called at the start of every _request: there is no
\* await between the test and the assignment
_get_session(c) ==
    IF c._session = "none"
    THEN LET new == IF c.created = 0 THEN "own1" ELSE "own2"
         IN  [c EXCEPT !._session = new, !._own_session = TRUE,
                       !.created = IF @ < 2 THEN @ + 1 ELSE @,
                       !.open = @ \cup {new}, !.used = @ \cup {new}]
    ELSE [c EXCEPT !.used = @ \cup {c._session}]

\* close(): _own_session is left as it is
close(c) ==
    IF c._own_session /\ c._session # "none"
    THEN [c EXCEPT !.closed = @ \cup {c._session}, !.open = @ \ {c._session},
                   !._session = "none", !.torn = TRUE]
    ELSE [c EXCEPT !.torn = TRUE]

\* what a step of the fetch leaves alone besides the coordinator
fetchFrame == <<remote, entries, svc, flow, setups>>

\* the pages get_all_usage is served: an item container that is a single
\* object is left out
UsagePage(page) ==
    "obj" \in DOMAIN page =>
        \A k \in DOMAIN page.obj \cap {"data"} : "arr" \in DOMAIN page.obj[k]

\* get_all_simcards() / get_all_usage() is called on a client that has not
\* been torn down: the first request is sent without a cursor
CallFetch(fn) ==
    /\ fetch.pc \in {"idle", "done"}
    /\ ~client.torn
    /\ fetch' = [NoFetch EXCEPT !.fn = fn, !.pc = "request", !.sent = <<"">>]
    /\ client' = _get_session(client)
    /\ UNCHANGED <<coordVars, pc, pending, cmdVars, cyc, pre, reqVars, oper, fetchFrame>>

\* what the fetch becomes when _request has ended with ret for a response of
\* the given status
FetchAfter(f, status, ret) ==
    IF ret.raised
    THEN [f EXCEPT !.pc = "done", !.outcome = ret.err, !.cursor = "",
                   !.status = status, !.ret = ret.err]
    ELSE LET step == PageStep(f.fn, f.items, ret.val)
             g    == [f EXCEPT !.status = status, !.ret = "returned",
                               !.served = IF Len(@) < MaxPages THEN Append(@, ret.val)
                                          ELSE @,
                               !.truncated = Len(f.served) >= MaxPages]
         IN  IF step.raised # ""
             THEN [g EXCEPT !.pc = "done", !.outcome = step.raised, !.cursor = ""]
             ELSE IF step.stop
             THEN [g EXCEPT !.pc = "done", !.outcome = "returned", !.cursor = "",
                            !.items = step.items, !.result = step.items]
             ELSE [g EXCEPT !.pc = "sleep", !.cursor = step.cursor,
                            !.items = step.items]

\* faulty variant: a failed request ends the loop and the items gathered so
\* far are returned
FetchRespond_partial(response) ==
    /\ fetch.pc = "request"
    /\ (fetch.fn = "get_all_usage" /\ "body" \in DOMAIN response) => UsagePage(response.body)
    /\ (Len(fetch.served) >= MaxPages /\ "body" \in DOMAIN response)
          => response.body \in QuietPages
    /\ LET ret == _request(response)
           st  == IF "status" \in DOMAIN response THEN response.status ELSE 0
           f   == FetchAfter(fetch, st, ret)
       IN  fetch' = IF ret.raised
                    THEN [f EXCEPT !.outcome = "returned", !.result = fetch.items]
                    ELSE f
    /\ UNCHANGED <<coordVars, pc, pending, cmdVars, cyc, pre, reqVars, oper, extVars>>

\* the server answers the request in flight, or the exchange fails: _request
\* raises, or returns the page and the loop body runs up to its next await
FetchRespond(response) ==
    /\ fetch.pc = "request"
    /\ (fetch.fn = "get_all_usage" /\ "body" \in DOMAIN response) => UsagePage(response.body)
    /\ (Len(fetch.served) >= MaxPages /\ "body" \in DOMAIN response)
          => response.body \in QuietPages
    /\ LET ret == _request(response)
           st  == IF "status" \in DOMAIN response THEN response.status ELSE 0
       IN  fetch' = FetchAfter(fetch, st, ret)
    /\ UNCHANGED <<coordVars, pc, pending, cmdVars, cyc, pre, reqVars, oper, extVars>>

\* faulty variant: the next request is sent without the cursor
FetchSleep_nocursor ==
    /\ fetch.pc = "sleep"
    /\ fetch' = [fetch EXCEPT !.pc = "request",
                              !.sent = IF Len(@) <= MaxPages THEN Append(@, "")
                                       ELSE @]
    /\ client' = _get_session(client)
    /\ UNCHANGED <<coordVars, pc, pending, cmdVars, cyc, pre, reqVars, oper, fetchFrame>>

\* await asyncio.sleep(0.1) is over: the next request is sent with the cursor
FetchSleep ==
    /\ fetch.pc = "sleep"
    /\ fetch' = [fetch EXCEPT !.pc = "request",
                              !.sent = IF Len(@) <= MaxPages THEN Append(@, fetch.cursor)
                                       ELSE @]
    /\ client' = _get_session(client)
    /\ UNCHANGED <<coordVars, pc, pending, cmdVars, cyc, pre, reqVars, oper, fetchFrame>>

\* the client is torn down: close()
CloseClient ==
    /\ fetch.pc \in {"idle", "done"}
    /\ ~client.torn
    /\ client' = close(client)
    /\ UNCHANGED <<coordVars, pc, pending, cmdVars, cyc, pre, reqVars, oper, fetch,
                   fetchFrame>>

----------------------------------------------------------------------------
(* The remote account a refresh cycle is answered from *)

\* before the first successful cycle coordinator.data is None
NoneShared == [simcards |-> FALSE, usage |-> FALSE]

\* the remote account: its device list, its usage list, whether the usage
\* endpoint answers (it raises an API error when it does not), the account
\* and balance payloads
NoRemote ==
    [devices |-> <<>>, usage |-> <<>>, usageUp |-> TRUE,
     account |-> EmptyDict, balance |-> EmptyDict]

\* device records in every spelling of the status, under state or status,
\* with an empty and with a missing status
mA == [id |-> "A", status |-> "Enabled"]
mB == [id |-> "B", status |-> "disabled"]

MergeRecords == {mA, mB,
                 [iccid |-> "A", state |-> "ENABLED"],
                 [ICCID |-> "B", status |-> "active"],
                 [iccid |-> "C", state |-> ""],
                 [iccid |-> "C"],
                 simA_on, simB, simD_suspended, simE_disabled, simNoId}

uA == [id |-> "A", data |-> 1048576]

MaxMerge == 2

MergeDeviceLists == SeqsUpTo(MergeRecords, MaxMerge)
MergeUsageLists  == SeqsUpTo({uA, usageC}, MaxUsage)

\* the states of the remote account; no usage list is kept for an endpoint
\* that does not answer
Remotes ==
    {[devices |-> d, usage |-> u, usageUp |-> up,
      account |-> OpsAccount, balance |-> OpsBalance] :
        d \in MergeDeviceLists, u \in MergeUsageLists, up \in BOOLEAN}
      \ {r \in [devices : MergeDeviceLists, usage : MergeUsageLists, usageUp : {FALSE},
                account : {OpsAccount}, balance : {OpsBalance}] : r.usage # <<>>}

\* the states the remote account changes to between two cycles
ChangedRemotes == {r \in Remotes : r.devices \in {<<>>, <<mA, mB>>}}

\* the remote account changes while no cycle runs; no cycle has completed
\* against its new state yet
ServerChange(r) ==
    /\ InFlight = {}
    /\ remote # r
    /\ remote' = r
    /\ cyc' = [NoCycle EXCEPT !.prev = LastCompleted]
    /\ UNCHANGED <<coordVars, pc, pending, cmdVars, pre, reqVars, oper, fetch,
                   entries, svc, flow, client, setups>>

\* the usage fetch of a cycle, answered from the remote account
UsageAnswered(s) == remote.usageUp /\ UsageReturn(s, remote.usage)

\* the usage fetch of a cycle while the usage endpoint does not answer
UsageUnanswered(s, err) == ~remote.usageUp /\ UsageFail(s, err)

----------------------------------------------------------------------------
(* Service handlers (__init__.py) and the config flow (config_flow.py) *)

EntryIds   == {"e1", "e2", "e3"}
MaxEntries == 2

\* no entry has been set up or unloaded yet
NoSetups == [id \in EntryIds |-> "none"]

\* the device lists the first refresh of a set-up entry, or a later refresh
\* of a registered coordinator, is answered with
EntryDeviceLists == {<<>>, <<simA_off>>, <<simA_on, simB>>}

\* every other field of the frame of the registry, the service handlers and
\* the config flow
setupFrame == <<coordVars, pc, pending, cmdVars, cyc, pre, reqVars, oper, fetch, remote,
               client>>

\* async_setup_entry: the first refresh succeeded and
\* hass.data[DOMAIN][entry.entry_id] is assigned
SetupEntry(id, list) ==
    /\ Len(entries) < MaxEntries
    /\ \A i \in 1..Len(entries) : entries[i].id # id
    /\ entries' = Append(entries, [id |-> id, simcards |-> BuildDict(list, EmptyDict)])
    /\ setups' = [setups EXCEPT ![id] = "set_up"]
    /\ UNCHANGED <<setupFrame, svc, flow>>

\* faulty variant: the coordinator is registered before its first refresh,
\* which fails
SetupEntryFails_registered(id) ==
    /\ Len(entries) < MaxEntries
    /\ \A i \in 1..Len(entries) : entries[i].id # id
    /\ entries' = Append(entries, [id |-> id, simcards |-> EmptyDict])
    /\ setups' = [setups EXCEPT ![id] = "refresh_failed"]
    /\ UNCHANGED <<setupFrame, svc, flow>>

\* async_setup_entry: async_config_entry_first_refresh() raises and the
\* assignment to hass.data[DOMAIN] is not reached
SetupEntryFails(id) ==
    /\ Len(entries) < MaxEntries
    /\ \A i \in 1..Len(entries) : entries[i].id # id
    /\ setups[id] # "refresh_failed"
    /\ setups' = [setups EXCEPT ![id] = "refresh_failed"]
    /\ UNCHANGED <<setupFrame, entries, svc, flow>>

\* async_unload_entry with unload_ok: hass.data[DOMAIN].pop(entry.entry_id)
UnloadEntry(id) ==
    /\ \E i \in 1..Len(entries) : entries[i].id = id
    /\ entries' = SelectSeq(entries, LAMBDA e : e.id # id)
    /\ setups' = [setups EXCEPT ![id] = "unloaded"]
    /\ UNCHANGED <<setupFrame, svc, flow>>

\* async_unload_entry without unload_ok: nothing is popped
UnloadEntryFails(id) ==
    /\ \E i \in 1..Len(entries) : entries[i].id = id
    /\ setups[id] # "unload_failed"
    /\ setups' = [setups EXCEPT ![id] = "unload_failed"]
    /\ UNCHANGED <<setupFrame, entries, svc, flow>>

\* a registered coordinator rebuilds its device mapping in a refresh cycle
EntryRefresh(id, list) ==
    /\ \E i \in 1..Len(entries) :
          /\ entries[i].id = id
          /\ entries[i].simcards # BuildDict(list, EmptyDict)
          /\ entries' = [entries EXCEPT ![i].simcards = BuildDict(list, EmptyDict)]
    /\ UNCHANGED <<setupFrame, svc, flow, setups>>

ServiceKinds == {"activate_sim", "deactivate_sim", "send_sms"}

\* the coordinator method, and through it the API call, a handler awaits
ServiceFn(kind) ==
    CASE kind = "activate_sim"   -> "activate_simcard"
      [] kind = "deactivate_sim" -> "deactivate_simcard"
      [] kind = "send_sms"       -> "send_sms"

\* the service call in flight; history: the registered coordinators, in
\* registry order, whose get_simcard(iccid) was truthy when the handler
\* looked, the remote calls it issued, the coordinators it asked to refresh,
\* how it ended, and whether it logged "not found"
NoSvc ==
    [pc |-> "idle", kind |-> "none", iccid |-> "", matches |-> <<>>, calls |-> <<>>,
     refreshes |-> <<>>, outcome |-> "none", logged |-> FALSE]

\* if coordinator.get_simcard(iccid): None and an empty dict are falsy
EntryHas(e, iccid) ==
    iccid \in DOMAIN e.simcards /\ DOMAIN e.simcards[iccid] # {}

\* the ids of the registered coordinators that hold iccid, in registry order
Matching(iccid) ==
    LET m == SelectSeq(entries, LAMBDA e : EntryHas(e, iccid))
    IN  [i \in 1..Len(m) |-> m[i].id]

\* faulty variant: the loop goes on after a call, so that every coordinator
\* that holds iccid is called
CallService_all(kind, iccid) ==
    /\ svc.pc \in {"idle", "done"}
    /\ LET m == Matching(iccid)
       IN  svc' = IF m # <<>>
                  THEN [NoSvc EXCEPT !.pc = "remote", !.kind = kind, !.iccid = iccid,
                                     !.matches = m,
                                     !.calls = [i \in 1..Len(m) |->
                                                  [entry |-> m[i], fn |-> ServiceFn(kind),
                                                   iccid |-> iccid]]]
                  ELSE [NoSvc EXCEPT !.pc = "done", !.kind = kind, !.iccid = iccid,
                                     !.outcome = "returned", !.logged = TRUE]
    /\ UNCHANGED <<setupFrame, entries, flow, setups>>

\* a service handler is called: the loop over hass.data[DOMAIN].values()
\* runs up to the first coordinator that holds iccid, whose method is
\* awaited; without one the error is logged and the handler returns
CallService(kind, iccid) ==
    /\ svc.pc \in {"idle", "done"}
    /\ LET m == Matching(iccid)
       IN  svc' = IF m # <<>>
                  THEN [NoSvc EXCEPT !.pc = "remote", !.kind = kind, !.iccid = iccid,
                                     !.matches = m,
                                     !.calls = <<[entry |-> m[1], fn |-> ServiceFn(kind),
                                                  iccid |-> iccid]>>]
                  ELSE [NoSvc EXCEPT !.pc = "done", !.kind = kind, !.iccid = iccid,
                                     !.outcome = "returned", !.logged = TRUE]
    /\ UNCHANGED <<setupFrame, entries, flow, setups>>

\* the remote call returned: activate and deactivate ask their coordinator
\* for a refresh, then the handler returns
ServiceOk(payload) ==
    /\ svc.pc = "remote"
    /\ svc' = [svc EXCEPT !.pc = "done", !.outcome = "returned",
                          !.refreshes = IF svc.kind = "send_sms" THEN <<>>
                                        ELSE <<svc.calls[1].entry>>]
    /\ UNCHANGED <<setupFrame, entries, flow, setups>>

\* the remote call raised: the error leaves the coordinator method and the
\* handler
ServiceFail(err) ==
    /\ svc.pc = "remote"
    /\ svc' = [svc EXCEPT !.pc = "done", !.outcome = err]
    /\ UNCHANGED <<setupFrame, entries, flow, setups>>

\* the config flow: the step whose form is shown ("user", "sensors"), or
\* "created" / "aborted" once it has ended; where it is (idle, awaiting the
\* probe, awaiting the device count); errors["base"]; what validate_api_key
\* returned for the last submission; history: the status of every probe
\* response (0 for a failed exchange); whether an entry was created
NoFlow ==
    [step |-> "none", pc |-> "idle", errors |-> "", valid |-> "none",
     probes |-> <<>>, entry |-> FALSE]

MaxProbes == 3

\* faulty variant: every API error makes the key invalid
validate_api_key_strict(ret) == ~ret.raised

\* validate_api_key: False on SimbaseAuthError, True on any other
\* SimbaseApiError and when get_simcards(limit=1) returns
validate_api_key(ret) == ~(ret.raised /\ ret.err = "SimbaseAuthError")

\* a flow is started: async_step_user(None) shows the credential form
FlowShowUser ==
    /\ flow.step \in {"none", "created", "aborted"}
    /\ flow' = [NoFlow EXCEPT !.step = "user"]
    /\ UNCHANGED <<setupFrame, entries, svc, setups>>

\* the user submits a key: the flow aborts when the key is configured
\* already, else validate_api_key() is awaited
FlowSubmitKey(configured) ==
    /\ flow.step = "user" /\ flow.pc = "idle"
    /\ Len(flow.probes) < MaxProbes
    /\ flow' = IF configured
               THEN [flow EXCEPT !.step = "aborted", !.errors = "", !.valid = "none"]
               ELSE [flow EXCEPT !.pc = "probe", !.errors = "", !.valid = "none"]
    /\ UNCHANGED <<setupFrame, entries, svc, setups>>

\* the probe get_simcards(limit=1) is answered: a valid key leads to the
\* sensors form, an invalid one back to the credential form with invalid_auth,
\* an exception validate_api_key lets through with unknown
FlowProbe(response) ==
    /\ flow.pc = "probe"
    /\ LET ret    == _request(response)
           status == IF "status" \in DOMAIN response THEN response.status ELSE 0
           f      == [flow EXCEPT !.pc = "idle", !.probes = Append(@, status)]
       IN  flow' = IF ret.raised /\ ret.err \notin ApiErrors
                   THEN [f EXCEPT !.valid = "raised", !.errors = "unknown"]
                   ELSE IF validate_api_key(ret)
                   THEN [f EXCEPT !.valid = "true", !.step = "sensors"]
                   ELSE [f EXCEPT !.valid = "false", !.errors = "invalid_auth"]
    /\ UNCHANGED <<setupFrame, entries, svc, setups>>

\* the user submits the sensors form: get_all_simcards() is awaited for the
\* entry's title
FlowSubmitSensors ==
    /\ flow.step = "sensors" /\ flow.pc = "idle"
    /\ flow' = [flow EXCEPT !.pc = "count"]
    /\ UNCHANGED <<setupFrame, entries, svc, setups>>

\* the count returned or raised (any exception is logged): async_create_entry
FlowCreateEntry(outcome) ==
    /\ flow.pc = "count"
    /\ flow' = [flow EXCEPT !.pc = "idle", !.step = "created", !.entry = TRUE]
    /\ UNCHANGED <<setupFrame, entries, svc, setups>>

\* the entry the flow created is set up
SetupCreated(id, list) == flow.step = "created" /\ SetupEntry(id, list)

----------------------------------------------------------------------------
(* Specifications *)

\* the state after construction, for a remote account r and a client c
InitWith(r, c) ==
    /\ _simcards = EmptyDict
    /\ _usage = EmptyDict
    /\ _account = EmptyDict
    /\ _balance = EmptyDict
    /\ data = None
    /\ last_update_success = TRUE
    /\ pc = [s \in Slots |-> "idle"]
    /\ pending = 0
    /\ cmd = NoCmd
    /\ cyc = NoCycle
    /\ pre = None
    /\ cmdlog = NoLog
    /\ reqDuring = 0
    /\ cmdDuring = FALSE
    /\ oper = NoOp
    /\ fetch = NoFetch
    /\ shared = NoneShared
    /\ remote = r
    /\ entries = <<>>
    /\ svc = NoSvc
    /\ flow = NoFlow
    /\ client = c
    /\ setups = NoSetups

\* the integration constructs the client with the session of its host
\* (__init__.py 34-35)
Init == InitWith(NoRemote, NewClient("outside"))

\* the refresh cycle against every server behaviour
Next ==
    \/ TimerTick
    \/ \E s \in Slots : StartCycle(s)
    \/ \E s \in Slots, err \in ApiErrors : SimcardsFail(s, err)
    \/ \E s \in Slots, list \in DeviceLists : SimcardsReturn(s, list)
    \/ \E s \in Slots, list \in UsageLists : UsageReturn(s, list)
    \/ \E s \in Slots, err \in ApiErrors : UsageFail(s, err)
    \/ \E s \in Slots, p \in AccountPayloads : AccountReturn(s, p)
    \/ \E s \in Slots, err \in ApiErrors : AccountFail(s, err)
    \/ \E s \in Slots, p \in BalancePayloads : BalanceReturn(s, p)
    \/ \E s \in Slots, err \in ApiErrors : BalanceFail(s, err)
    \/ \E s \in Slots, p \in AccountPayloads : FallbackReturn(s, p)
    \/ \E s \in Slots, err \in ApiErrors : FallbackFail(s, err)

Spec == Init /\ [][Next]_vars

\* the server's answers while commands are issued
CmdDeviceLists == {<<simA_off>>, <<simA_on, simB>>}
CmdUsageLists  == {<<usageA>>}
CmdAccountPayloads == {[currency |-> "USD", balance |-> 10]}

\* commands, refresh requests and timer ticks interleaved with refresh cycles
NextCommands ==
    \/ TimerTick
    \/ RequestRefresh
    \/ \E s \in Slots : StartCycle(s)
    \/ \E op \in CmdOps, iccid \in CmdIds : CallCommand(op, iccid)
    \/ CommandOk
    \/ \E err \in ApiErrors : CommandFail(err)
    \/ \E s \in Slots, err \in ApiErrors : SimcardsFail(s, err)
    \/ \E s \in Slots, list \in CmdDeviceLists : SimcardsReturn(s, list)
    \/ \E s \in Slots, list \in CmdUsageLists : UsageReturn(s, list)
    \/ \E s \in Slots, err \in ApiErrors : UsageFail(s, err)
    \/ \E s \in Slots, p \in CmdAccountPayloads : AccountReturn(s, p)
    \/ \E s \in Slots, err \in ApiErrors : AccountFail(s, err)
    \/ \E s \in Slots, p \in BalancePayloads : BalanceReturn(s, p)
    \/ \E s \in Slots, err \in ApiErrors : BalanceFail(s, err)
    \/ \E s \in Slots, p \in CmdAccountPayloads : FallbackReturn(s, p)
    \/ \E s \in Slots, err \in ApiErrors : FallbackFail(s, err)

SpecCommands == Init /\ [][NextCommands]_vars

\* the coordinator as constructed, or as one successful refresh cycle leaves it
OpsDevices == <<simA_on, simB>>
OpsUsage   == <<usageA>>

InitOps ==
    /\ \E refreshed \in BOOLEAN :
          IF refreshed
          THEN /\ _usage = BuildDict(OpsUsage, EmptyDict)
               /\ _simcards = Merged(BuildDict(OpsDevices, EmptyDict), _usage)
               /\ _account = OpsAccount
               /\ _balance = OpsBalance
               /\ data = Snapshot(_simcards, _usage, _account, _balance)
               /\ shared = [simcards |-> TRUE, usage |-> TRUE]
               /\ cyc = [NoCycle EXCEPT !.simcards = "ok", !.ids = UsableIds(OpsDevices),
                                        !.usage = "ok", !.account = "ok",
                                        !.balance = "ok",
                                        !.balanceRet = Return(OpsBalance),
                                        !.result = "success"]
          ELSE /\ _simcards = EmptyDict
               /\ _usage = EmptyDict
               /\ _account = EmptyDict
               /\ _balance = EmptyDict
               /\ data = None
               /\ shared = NoneShared
               /\ cyc = NoCycle
    /\ last_update_success = TRUE
    /\ pc = [s \in Slots |-> "idle"]
    /\ pending = 0
    /\ cmd = NoCmd
    /\ pre = None
    /\ cmdlog = NoLog
    /\ reqDuring = 0
    /\ cmdDuring = FALSE
    /\ oper = NoOp
    /\ fetch = NoFetch
    /\ remote = NoRemote
    /\ entries = <<>>
    /\ svc = NoSvc
    /\ flow = NoFlow
    /\ client = NewClient("outside")
    /\ setups = NoSetups

\* send-sms and the bulk operations against every answer of the server
NextOps ==
    \/ RequestRefresh
    \/ \E iccid \in CmdIds : CallSendSms(iccid)
    \/ \E p \in CallPayloads : SendSmsOk(p)
    \/ \E err \in ApiErrors : SendSmsFail(err)
    \/ \E kind \in BulkKinds : CallBulk(kind)
    \/ \E list \in BulkDeviceLists : BulkListReturn(list)
    \/ \E err \in ApiErrors : BulkListFail(err)
    \/ \E p \in CallPayloads : BulkItemOk(p)
    \/ \E err \in ApiErrors : BulkItemFail(err)
    \/ BulkSleep

SpecOps == InitOps /\ [][NextOps]_vars

\* a paginated fetch against every answer of the server
NextFetch ==
    \/ \E fn \in Fetchers : CallFetch(fn)
    \/ \E response \in HttpResponses \cup NetFailures : FetchRespond(response)
    \/ FetchSleep

SpecFetch == Init /\ [][NextFetch]_vars

\* the server answers every request and every sleep ends
FetchProgress ==
    \/ \E response \in HttpResponses \cup NetFailures : FetchRespond(response)
    \/ FetchSleep

SpecFetchLive == SpecFetch /\ WF_vars(FetchProgress)

\* the client on its own: constructed with a session or without one, used
\* for paginated fetches, and torn down
InitSession == \E session \in {"outside", "none"} : InitWith(NoRemote, NewClient(session))

NextSession ==
    \/ NextFetch
    \/ CloseClient

SpecSession == InitSession /\ [][NextSession]_vars

\* the coordinator as constructed, facing a remote account in any state
InitMerge ==
    /\ _simcards = EmptyDict
    /\ _usage = EmptyDict
    /\ _account = EmptyDict
    /\ _balance = EmptyDict
    /\ data = None
    /\ shared = NoneShared
    /\ last_update_success = TRUE
    /\ pc = [s \in Slots |-> "idle"]
    /\ pending = 0
    /\ cmd = NoCmd
    /\ cyc = NoCycle
    /\ pre = None
    /\ cmdlog = NoLog
    /\ reqDuring = 0
    /\ cmdDuring = FALSE
    /\ oper = NoOp
    /\ fetch = NoFetch
    /\ remote \in Remotes
    /\ entries = <<>>
    /\ svc = NoSvc
    /\ flow = NoFlow
    /\ client = NewClient("outside")
    /\ setups = NoSetups

\* refresh cycles answered from the remote account, which changes between them
NextMerge ==
    \/ TimerTick
    \/ \E s \in Slots : StartCycle(s)
    \/ \E r \in ChangedRemotes : ServerChange(r)
    \/ \E s \in Slots : SimcardsReturn(s, remote.devices)
    \/ \E s \in Slots : UsageAnswered(s)
    \/ \E s \in Slots, err \in ApiErrors : UsageUnanswered(s, err)
    \/ \E s \in Slots : AccountReturn(s, remote.account)
    \/ \E s \in Slots : BalanceReturn(s, remote.balance)

SpecMerge == InitMerge /\ [][NextMerge]_vars

\* the endpoint the request awaited at p goes to
EndpointOf(p) ==
    CASE p = "get_all_simcards"    -> "simcards"
      [] p = "get_all_usage"       -> "usage"
      [] p = "get_account"         -> "account"
      [] p = "get_balance"         -> "balance"
      [] p = "get_balance_account" -> "account"
      [] OTHER                     -> "none"

\* a remote account some of whose endpoints are down: every request to them
\* ends as response, a failed exchange or a rejection by the server
NetRemotes ==
    {[devices |-> d, usage |-> <<usageA>>, usageUp |-> TRUE, account |-> OpsAccount,
      balance |-> OpsBalance, down |-> e, response |-> f] :
        d \in {<<simA_on, simB>>, <<simA_off>>},
        e \in {{}, {"simcards"}, {"usage"}, {"account"}, {"balance"},
               {"account", "balance"}},
        f \in NetFailures \cup {[status |-> 500, body |-> [other |-> "null"]]}}

\* how the request the execution s awaits ends
NetRet(s) ==
    IF EndpointOf(pc[s]) \in remote.down THEN _request(remote.response)
    ELSE Return(EmptyDict)

\* the awaited request is answered from the remote account
NetReturn(s) ==
    /\ ~NetRet(s).raised
    /\ \/ SimcardsReturn(s, remote.devices)
       \/ UsageReturn(s, remote.usage)
       \/ AccountReturn(s, remote.account)
       \/ BalanceReturn(s, remote.balance)
       \/ FallbackReturn(s, remote.account)

\* the awaited request raises an API error
NetReject(s) ==
    /\ NetRet(s).raised
    /\ NetRet(s).err \in ApiErrors
    /\ \/ SimcardsFail(s, NetRet(s).err)
       \/ UsageFail(s, NetRet(s).err)
       \/ AccountFail(s, NetRet(s).err)
       \/ BalanceFail(s, NetRet(s).err)
       \/ FallbackFail(s, NetRet(s).err)

\* the awaited request raises an exception that is no SimbaseApiError: no
\* except clause of get_account, get_balance or _async_update_data matches,
\* the exception leaves _async_update_data where it is, and the refresh is
\* recorded as failed; what the cycle assigned so far stays assigned
CycleCrash(s) ==
    /\ pc[s] # "idle"
    /\ NetRet(s).raised
    /\ NetRet(s).err \notin ApiErrors
    /\ last_update_success' = FALSE
    /\ pc' = [pc EXCEPT ![s] = "idle"]
    /\ LET stage == IF pc[s] = "get_balance_account" THEN "fallback"
                    ELSE EndpointOf(pc[s])
       IN  cyc' = [[cyc EXCEPT !.result = "failed"] EXCEPT ![stage] = NetRet(s).err]
    /\ UNCHANGED <<callVars, shared, _simcards, _usage, _account, _balance, data, pending,
                   cmdVars, pre, reqVars>>

InitNet == \E r \in NetRemotes : InitWith(r, NewClient("outside"))

\* refresh cycles against a remote account with endpoints that are down
NextNet ==
    \/ TimerTick
    \/ \E s \in Slots : StartCycle(s)
    \/ \E r \in NetRemotes : ServerChange(r)
    \/ \E s \in Slots : NetReturn(s)
    \/ \E s \in Slots : NetReject(s)
    \/ \E s \in Slots : CycleCrash(s)

SpecNet == InitNet /\ [][NextNet]_vars

\* service calls while entries are set up, refreshed and unloaded
NextServices ==
    \/ \E id \in EntryIds, list \in EntryDeviceLists : SetupEntry(id, list)
    \/ \E id \in EntryIds : SetupEntryFails(id)
    \/ \E id \in EntryIds : UnloadEntry(id)
    \/ \E id \in EntryIds : UnloadEntryFails(id)
    \/ \E id \in EntryIds, list \in EntryDeviceLists : EntryRefresh(id, list)
    \/ \E kind \in ServiceKinds, iccid \in Identifiers : CallService(kind, iccid)
    \/ \E p \in CallPayloads : ServiceOk(p)
    \/ \E err \in ApiErrors : ServiceFail(err)

SpecServices == Init /\ [][NextServices]_vars

\* config flows against every answer of the server to the probe
NextFlow ==
    \/ FlowShowUser
    \/ \E configured \in BOOLEAN : FlowSubmitKey(configured)
    \/ \E response \in HttpResponses \cup NetFailures : FlowProbe(response)
    \/ FlowSubmitSensors
    \/ \E outcome \in {"returned"} \cup ApiErrors : FlowCreateEntry(outcome)
    \/ \E id \in EntryIds, list \in EntryDeviceLists : SetupCreated(id, list)
    \/ \E id \in EntryIds : UnloadEntry(id)

SpecFlow == Init /\ [][NextFlow]_vars

\* the dict a cycle returns when the remote account is in state r and every
\* fetch is answered from it, a usage endpoint that does not answer counting
\* as an empty usage list
MergeOf(r) ==
    LET usage == IF r.usageUp THEN BuildDict(r.usage, EmptyDict) ELSE EmptyDict
        sims  == Merged(BuildDict(r.devices, EmptyDict), usage)
    IN  Snapshot(sims, usage, r.account, r.balance)

----------------------------------------------------------------------------
(* Properties *)

\* the device mapping of the published snapshot (empty before the first one)
PublishedSimcards == IF data # None THEN data.simcards ELSE EmptyDict

\* C1: when the device-list fetch of a cycle fails with an API error, the
\* cycle fails, last_update_success is false, and the five accessors return
\* what they returned when the cycle started.
C1_DeviceFetchFailureKeepsSnapshot ==
    cyc.result = "failed" =>
        /\ cyc.simcards = "err"
        /\ ~last_update_success
        /\ Accessors = pre

\* a cycle failed at the device list after an earlier cycle had published devices
C1_Witness ==
    /\ cyc.result = "failed"
    /\ data # None
    /\ get_all_simcards # EmptyDict
    /\ get_totals # EmptyDict

\* C2 (as claimed): when the usage fetch fails and the device list succeeded,
\* the cycle succeeds and the snapshot it publishes has an empty usage section
\* and no device with a usage payload.
C2_UsageFailureEmptiesUsage ==
    (cyc.result = "success" /\ cyc.usage = "err") =>
        /\ data.usage = EmptyDict
        /\ \A i \in DOMAIN data.simcards : ~Has(data.simcards[i], "usage")

\* C3: when the account request fails and the device list succeeded, the
\* cycle reports success, the published account section is {} and every
\* fetched device that has an identifier is in the snapshot.
C3_AccountFailureDegrades ==
    (cyc.account = "err" /\ cyc.result # "running") =>
        /\ cyc.result = "success"
        /\ last_update_success
        /\ data.account = EmptyDict
        /\ get_account_data = EmptyDict
        /\ cyc.ids \subseteq DOMAIN data.simcards

\* the account request failed in a cycle that fetched devices, after a cycle
\* in which the account had been fetched
C3_Witness ==
    /\ cyc.account = "err"
    /\ cyc.result = "success"
    /\ cyc.ids = {"A", "B"}
    /\ cyc.prev = "success"

\* C4: api.get_balance() never raises an API error; it returns the balance
\* payload when the balance request succeeds, {"balance": b} when that fails
\* and the account payload has a balance field b, and {} otherwise.
C4_BalanceFallback ==
    cyc.result = "success" =>
        /\ ~cyc.balanceRet.raised
        /\ get_balance = cyc.balanceRet.val
        /\ cyc.balance = "ok" => get_balance \in BalancePayloads
        /\ (cyc.balance = "err" /\ cyc.fallback = "ok" /\ Has(cyc.fallbackVal, "balance"))
               => get_balance = [balance |-> cyc.fallbackVal["balance"]]
        /\ (cyc.balance = "err"
              /\ (cyc.fallback = "err" \/ ~Has(cyc.fallbackVal, "balance")))
               => get_balance = EmptyDict

\* the balance request failed and the account payload had a balance field
C4_Witness ==
    /\ cyc.result = "success"
    /\ cyc.balance = "err"
    /\ cyc.fallback = "ok"
    /\ Has(cyc.fallbackVal, "balance")
    /\ get_balance = [balance |-> 10]

\* C5 (as claimed): while a cycle is in flight and a snapshot has been
\* published, a reader gets the device mapping of the published snapshot, or
\* the fully merged new mapping together with totals computed from it.
C5_ReadersNeverSeePartialCycle ==
    (InFlight # {} /\ data # None) =>
        \/ /\ get_all_simcards = PublishedSimcards
           /\ \A i \in Identifiers :
                 get_simcard(i) = IF i \in DOMAIN PublishedSimcards
                                  THEN PublishedSimcards[i] ELSE None
        \/ /\ \A s \in InFlight : pc[s] \notin {"get_all_simcards", "get_all_usage"}
           /\ get_totals = Totals(get_all_simcards)

\* C6: at most one execution of the refresh cycle is in flight.
C6_AtMostOneCycleInFlight == Cardinality(InFlight) <= 1

\* a command and refresh requests arrived while a cycle was in flight
C6_Witness ==
    /\ InFlight # {}
    /\ pending = 1
    /\ reqDuring >= 2
    /\ cmd.pc = "remote"

\* C7: two or more requestRefresh calls that arrive during a cycle, the one
\* of a command included, leave exactly one request pending, and the start of
\* the follow-up cycle leaves none.
C7_RequestsCoalesce ==
    /\ [](reqDuring >= 2 => pending = 1)
    /\ [][(reqDuring >= 2 /\ InFlight = {} /\ InFlight' # {}) => pending' = 0]_vars

\* the follow-up cycle is about to start after a command and another caller
\* requested a refresh during the cycle before it
C7_Witness ==
    /\ reqDuring >= 2
    /\ cmdDuring
    /\ cmdlog.refresh
    /\ InFlight = {}
    /\ cyc.result \in {"success", "failed"}

\* C8: last_update_success is false exactly when the most recently completed
\* cycle failed; a successful cycle publishes the snapshot merged from what
\* it fetched and sets the flag, also after failed cycles.
C8_StaleFlagTracksLastCycle ==
    /\ (LastCompleted = "failed") <=> ~last_update_success
    /\ cyc.result = "success" =>
          /\ data = Snapshot(_simcards, _usage, _account, _balance)
          /\ DOMAIN data.simcards = cyc.ids

\* a cycle succeeded right after a failed one
C8_Witness ==
    /\ cyc.result = "success"
    /\ cyc.prev = "failed"
    /\ last_update_success
    /\ cyc.ids # {}

C10_RefreshOnlyAfterSuccess ==
    [][ /\ (cmd.pc = "idle" /\ cmd'.pc = "remote") =>
              (pending' = pending /\ reqDuring' = reqDuring /\ ~cmdlog'.refresh)
        /\ (cmd.pc = "remote" /\ cmd'.pc = "idle" /\ cmdlog'.remote = "ok") =>
              (cmdlog'.result = "ok" /\ cmdlog'.refresh /\ pending' = 1)
        /\ (cmd.pc = "remote" /\ cmd'.pc = "idle" /\ cmdlog'.remote # "ok") =>
              /\ cmdlog'.result = cmdlog'.remote
              /\ cmdlog'.result \in ApiErrors
              /\ ~cmdlog'.refresh
              /\ pending' = pending
              /\ reqDuring' = reqDuring ]_vars

\* the remote call of a command failed while no refresh was pending
C10_Witness ==
    /\ cmd.pc = "idle"
    /\ cmdlog.result = "SimbaseAuthError"
    /\ cmdlog.remote = "SimbaseAuthError"
    /\ ~cmdlog.refresh
    /\ pending = 0

\* the operation in flight is a bulk operation that has returned or raised
BulkDone == oper.kind \in BulkKinds /\ oper.pc = "done"

\* C11: async_send_sms issues exactly one remote call (send_sms for the given
\* identifier), never calls async_request_refresh, and none of its steps
\* changes the coordinator's fields, its published data or the pending
\* refresh requests, whether the call returns or raises.
C11_SendSmsOneCallNoRefresh ==
    /\ [](oper.kind = "send_sms" =>
            /\ oper.calls = <<[fn |-> "send_sms", iccid |-> oper.iccid]>>
            /\ oper.refreshes = 0)
    /\ [][ (oper'.kind = "send_sms" /\ oper' # oper) =>
              /\ UNCHANGED <<coordVars, pending, reqVars>>
              /\ Accessors' = Accessors ]_vars

\* send_sms raised after a snapshot was published and no refresh is pending
C11_Witness ==
    /\ oper.kind = "send_sms"
    /\ oper.pc = "done"
    /\ oper.outcome = "SimbaseRateLimitError"
    /\ data # None
    /\ pending = 0

\* C12: when the device list was fetched, a bulk operation returns a list
\* with one entry per matching device, in device-list order; a call that
\* raised an API error gives a failure entry and the later devices are still
\* processed.
C12_BulkRunsToCompletion ==
    (BulkDone /\ oper.listed = "ok") =>
        LET matching == SelectSeq(oper.list, LAMBDA d : BulkMatches(oper.kind, d))
            failed   == {k \in 1..Len(oper.results) : ~oper.results[k].success}
        IN  /\ oper.outcome = "returned"
            /\ Len(oper.results) = Len(matching)
            /\ \A k \in 1..Len(matching) :
                  /\ oper.results[k].iccid = matching[k]["iccid"]
                  /\ oper.results[k].success \in BOOLEAN
                  /\ oper.calls[k].iccid = matching[k]["iccid"]
            /\ Cardinality(failed) = Len(oper.errs)

\* the call for the first of two matching devices raised, the second returned
C12_Witness ==
    /\ BulkDone
    /\ Len(oper.results) = 2
    /\ ~oper.results[1].success
    /\ oper.results[2].success
    /\ oper.results[1].iccid # oper.results[2].iccid

\* C13 (as claimed): a bulk operation never raises an API error to its
\* caller: every API error of any of its remote calls is an entry of the
\* returned list.
C13_BulkNeverRaises ==
    BulkDone =>
        /\ oper.outcome = "returned"
        /\ Len(oper.errs) =
              Cardinality({k \in 1..Len(oper.results) : ~oper.results[k].success})

\* C13 (amended): an API error of a per-device call is never raised to the
\* caller and is the error of a failure entry of the returned list, in call
\* order; an API error of the device-list fetch is raised to the caller
\* unchanged, and no list is returned.
C13_BulkCapturesPerItemErrors ==
    BulkDone =>
        LET failed == SelectSeq(oper.results, LAMBDA r : ~r.success)
        IN  /\ oper.listed = "ok" =>
                  /\ oper.outcome = "returned"
                  /\ Len(failed) = Len(oper.errs)
                  /\ \A k \in 1..Len(failed) : failed[k].error = oper.errs[k]
            /\ oper.listed = "err" =>
                  /\ oper.outcome \in ApiErrors
                  /\ oper.errs = <<oper.outcome>>
                  /\ oper.results = <<>>
                  /\ oper.calls = <<>>

\* both per-device calls of a batch raised, with different errors
C13_Witness ==
    /\ BulkDone
    /\ oper.outcome = "returned"
    /\ oper.errs = <<"SimbaseRateLimitError", "SimbaseApiError">>
    /\ Len(oper.results) = 2

\* C14 (as claimed): every call of a bulk operation calls
\* async_request_refresh exactly once, after its last per-device call.
C14_BulkRefreshesOnce ==
    BulkDone => (oper.refreshes = 1 /\ oper.refreshAt = Len(oper.calls))

\* C14 (amended): a bulk operation that returns its result list has called
\* async_request_refresh exactly once, after its last per-device call and not
\* before; one that raises (its device-list fetch failed) has not called it.
C14_BulkRefreshesOnceAfterBatch ==
    oper.kind \in BulkKinds =>
        /\ oper.pc # "done" => oper.refreshes = 0
        /\ (oper.pc = "done" /\ oper.outcome = "returned") =>
              /\ oper.refreshes = 1
              /\ oper.refreshAt = Len(oper.calls)
              /\ pending = 1
        /\ (oper.pc = "done" /\ oper.outcome # "returned") =>
              /\ oper.outcome \in ApiErrors
              /\ oper.refreshes = 0

\* a batch of two per-device calls has returned
C14_Witness ==
    /\ BulkDone
    /\ oper.listed = "ok"
    /\ Len(oper.calls) = 2
    /\ oper.refreshes = 1

\* C15: among the fetched devices with an iccid field, activate_all calls
\* activate_simcard for exactly those whose status string (state, else
\* status), lower-cased, is disabled or inactive, and deactivate_all calls
\* deactivate_simcard for exactly those where it is enabled or active; the
\* other devices get no call, and no device is in both sets.
C15_BulkTargetsByStatus ==
    (oper.kind \in BulkKinds /\ oper.listed = "ok") =>
        LET status(d) == Lower(GetOr(d, <<"state", "status">>))
            withIccid == {j \in 1..Len(oper.list) : Truthy(oper.list[j], "iccid")}
            inactive  == {j \in withIccid :
                             status(oper.list[j]) \in {"disabled", "inactive"}}
            active    == {j \in withIccid :
                             status(oper.list[j]) \in {"enabled", "active"}}
            mine      == IF oper.kind = "activate_all" THEN inactive ELSE active
            fn        == IF oper.kind = "activate_all" THEN "activate_simcard"
                         ELSE "deactivate_simcard"
            called    == {oper.calls[k].iccid : k \in 1..Len(oper.calls)}
        IN  /\ inactive \cap active = {}
            /\ \A k \in 1..Len(oper.calls) : oper.calls[k].fn = fn
            /\ called \subseteq {oper.list[j]["iccid"] : j \in mine}
            /\ oper.pc = "done" =>
                  /\ called = {oper.list[j]["iccid"] : j \in mine}
                  /\ Len(oper.calls) = Cardinality(mine)

\* activate_all met a device whose state is DISABLED and a suspended one
C15_Witness ==
    /\ oper.kind = "activate_all"
    /\ oper.pc = "done"
    /\ oper.list = <<simE_disabled, simD_suspended>>
    /\ oper.calls = <<[fn |-> "activate_simcard", iccid |-> "E"]>>

\* C16: when the first response of get_all_simcards is a raw array, the
\* fetch returns exactly the items of that array, in order, and has sent the
\* one request only.
C16_RawArrayIsFinalPage ==
    (fetch.fn = "get_all_simcards" /\ Len(fetch.served) >= 1
        /\ "list" \in DOMAIN fetch.served[1]) =>
        /\ fetch.pc = "done"
        /\ fetch.outcome = "returned"
        /\ fetch.result = fetch.served[1].list
        /\ fetch.sent = <<"">>
        /\ Len(fetch.served) = 1

\* the first response was an array of two devices
C16_Witness ==
    /\ fetch.fn = "get_all_simcards"
    /\ fetch.served = <<[list |-> <<simA_off, simB>>]>>
    /\ fetch.result = <<simA_off, simB>>

\* C17: when every page served to get_all_simcards is an object that uses
\* one alias for the item container, one for has-more and one for the cursor,
\* the fetch gathers the items of the pages in page order, goes on after a
\* page with has-more true and a non-empty cursor, and stops at the first
\* other page, returning the concatenation.
C17_ConsistentAliasesConcatenate ==
    \A al \in AliasSets :
        (/\ fetch.fn = "get_all_simcards"
         /\ ~fetch.truncated
         /\ \A k \in 1..Len(fetch.served) :
               /\ "obj" \in DOMAIN fetch.served[k]
               /\ DOMAIN fetch.served[k].obj \subseteq {al[1], al[2], al[3]}) =>
            LET n == Len(fetch.served)
                page(k) == fetch.served[k].obj
                itemsOf(k) ==
                    IF ~Has(page(k), al[1]) THEN <<>>
                    ELSE IF "arr" \in DOMAIN page(k)[al[1]] THEN page(k)[al[1]].arr
                    ELSE <<page(k)[al[1]].one>>
                goesOn(k) == /\ Has(page(k), al[2]) /\ page(k)[al[2]]
                             /\ Has(page(k), al[3]) /\ page(k)[al[3]] # ""
                concat[k \in 0..n] ==
                    IF k = 0 THEN <<>> ELSE concat[k - 1] \o itemsOf(k)
            IN  /\ fetch.items = concat[n]
                /\ \A k \in 1..(n - 1) : goesOn(k)
                /\ (n >= 1 /\ ~goesOn(n)) =>
                      /\ fetch.pc = "done"
                      /\ fetch.outcome = "returned"
                      /\ fetch.result = concat[n]
                /\ (n >= 1 /\ goesOn(n) /\ fetch.ret = "returned") =>
                      fetch.pc \in {"sleep", "request"}
                /\ fetch.outcome = "returned" => (n >= 1 /\ ~goesOn(n))

\* three pages with the aliases simcards, hasMore and next_cursor were
\* gathered, the third being the last
C17_Witness ==
    /\ fetch.fn = "get_all_simcards"
    /\ fetch.outcome = "returned"
    /\ Len(fetch.served) = 3
    /\ \A k \in 1..3 : /\ "obj" \in DOMAIN fetch.served[k]
                       /\ "simcards" \in DOMAIN fetch.served[k].obj
    /\ fetch.result = <<simA_off, simA_off, simB>>

\* C18 (as claimed): every paginated fetch that has sent a request
\* eventually returns or raises, whatever the server answers.
C18_FetchTerminates == (fetch.pc = "request") ~> (fetch.pc = "done")

\* C19: when _request raises an API error on a page, the fetch ends at that
\* page with the same error, sends no further request and returns nothing,
\* whatever it gathered from the pages before.
C19_TransportErrorAbortsFetch ==
    fetch.ret \in ApiErrors =>
        /\ fetch.pc = "done"
        /\ fetch.outcome = fetch.ret
        /\ fetch.result = <<>>
        /\ ~fetch.truncated => Len(fetch.sent) = Len(fetch.served) + 1

\* the third request was rejected with 429 after two pages with items
C19_Witness ==
    /\ fetch.outcome = "SimbaseRateLimitError"
    /\ fetch.status = 429
    /\ Len(fetch.served) = 2
    /\ Len(fetch.items) = 2
    /\ fetch.result = <<>>

\* C20 (as claimed): _request classifies a response by its status: 401 gives
\* SimbaseAuthError, 429 SimbaseRateLimitError, every other status outside
\* 200..299 SimbaseApiError, a status in 200..299 the decoded JSON; the two
\* special errors belong to the SimbaseApiError family.
C20_StatusClassification ==
    fetch.status # 0 =>
        /\ fetch.status = 401 => fetch.ret = "SimbaseAuthError"
        /\ fetch.status = 429 => fetch.ret = "SimbaseRateLimitError"
        /\ (fetch.status \notin 200..299 /\ fetch.status \notin {401, 429})
              => fetch.ret = "SimbaseApiError"
        /\ fetch.status \in 200..299 => fetch.ret = "returned"
        /\ {"SimbaseAuthError", "SimbaseRateLimitError"} \subseteq ApiErrors

\* C21: in every snapshot a refresh cycle published, totals.active_sims +
\* totals.inactive_sims is the number of devices of the snapshot's device
\* mapping, for every spelling of the status and for an unknown, empty or
\* missing status.
C21_ActivePlusInactiveIsDeviceCount ==
    data # None =>
        data.totals.active_sims + data.totals.inactive_sims
            = Cardinality(DOMAIN data.simcards)

\* a snapshot with an upper-case active device and a device without status
C21_Witness ==
    /\ data # None
    /\ \E i, j \in DOMAIN data.simcards :
          /\ Has(data.simcards[i], "state") /\ data.simcards[i]["state"] = "ENABLED"
          /\ ~Has(data.simcards[j], "state") /\ ~Has(data.simcards[j], "status")
    /\ data.totals.active_sims = 1
    /\ data.totals.inactive_sims = 1

\* C22: a device counts as active exactly when its status string (state, or
\* status when there is no state) is a spelling of "enabled" or "active";
\* every other device, also one whose status is "suspended", empty or
\* missing, counts as inactive.
C22_ActiveIffEnabledOrActive ==
    data # None =>
        LET status(i) == GetOr(data.simcards[i], <<"state", "status">>)
            act == {i \in DOMAIN data.simcards :
                       status(i) \in {"enabled", "Enabled", "ENABLED",
                                      "active", "Active"}}
        IN  /\ data.totals.active_sims = Cardinality(act)
            /\ data.totals.inactive_sims = Cardinality(DOMAIN data.simcards \ act)

\* snapshots in which "Active" / "ENABLED" / "active" counted as active and
\* "suspended" / "" as inactive
C22_Witness ==
    /\ data # None
    /\ DOMAIN data.simcards = {"B", "C"}
    /\ GetOr(data.simcards["B"], <<"state", "status">>) \in {"Active", "active"}
    /\ Has(data.simcards["C"], "state") /\ data.simcards["C"]["state"] = ""
    /\ data.totals.active_sims = 1
    /\ data.totals.inactive_sims = 1

\* C23: a device record without a usable identifier is dropped and the cycle
\* does not fail; the published snapshot has as many devices as the device
\* list has distinct usable identifiers, never more than it has records.
C23_RecordsWithoutIdAreDropped ==
    /\ cyc.result # "failed"
    /\ cyc.result = "success" =>
          /\ DOMAIN data.simcards = UsableIds(remote.devices)
          /\ data.count = Cardinality(UsableIds(remote.devices))
          /\ data.count <= Len(remote.devices)

\* a cycle succeeded on a list of two records, one of them without identifier
C23_Witness ==
    /\ cyc.result = "success"
    /\ Len(remote.devices) = 2
    /\ \E i \in 1..2 : remote.devices[i] = simNoId
    /\ data.count = 1

\* C24 (as claimed): no published snapshot holds, in any section, a usage
\* record whose identifier is not a key of its device mapping.
C24_NoOrphanUsage ==
    data # None =>
        /\ DOMAIN data.usage \subseteq DOMAIN data.simcards
        /\ \A i \in DOMAIN data.simcards :
              Has(data.simcards[i], "usage") =>
                  GetOr(data.simcards[i]["usage"], IccidAliases) = i

\* C25 (as claimed): the snapshot a cycle publishes is a function of the
\* devices, usage, account and balance the cycle received, whatever cycles
\* ran before it: it is the merge of the remote account's state.
C25_SnapshotIsFunctionOfInputs ==
    cyc.result = "success" => data = MergeOf(remote)

\* C26: for the device list [{id A, status Enabled}, {id B, status disabled}]
\* and the usage list [{id A, data 1048576}] the published snapshot has two
\* devices, device A carries a data usage of 1048576 bytes, which is 1.00 MB,
\* one device is active and one is inactive.
C26_Scenario ==
    (/\ cyc.result = "success"
     /\ remote.devices = <<mA, mB>>
     /\ remote.usageUp
     /\ remote.usage = <<uA>>)
    => /\ data.count = 2
       /\ DOMAIN data.simcards = {"A", "B"}
       /\ Has(data.simcards["A"], "usage")
       /\ data.simcards["A"]["usage"]["data"] = 1048576
       /\ HundredthsMB(data.simcards["A"]["usage"]["data"]) = 100
       /\ data.totals.active_sims = 1
       /\ data.totals.inactive_sims = 1

\* the scenario's cycle has completed, after a cycle on another state of the
\* remote account
C26_Witness ==
    /\ cyc.result = "success"
    /\ cyc.prev = "success"
    /\ remote.devices = <<mA, mB>>
    /\ remote.usageUp
    /\ remote.usage = <<uA>>
    /\ data.count = 2

\* C29: a published snapshot is immutable: no step of a later refresh cycle,
\* of a command or of a refresh request changes the content of
\* coordinator.data, except the step in which a cycle completes and
\* publishes a new snapshot in its place.
C29_PublishedSnapshotImmutable ==
    [][(data # None /\ data' # data)
          => (cyc.result = "running" /\ cyc'.result = "success")]_vars

\* a later cycle has rebuilt and merged self._simcards while the snapshot
\* published before it still holds the earlier devices
C29_Witness ==
    /\ data # None
    /\ cyc.result = "running"
    /\ cyc.usage # "none"
    /\ _simcards # data.simcards
    /\ data.simcards # EmptyDict

\* C30 (as claimed): get_all_usage returns the same items and issues the same
\* number of requests as get_all_simcards would for the same server
\* responses: it consumes the same pages, returns when and what
\* get_all_simcards returns, and raises only the error of a failed request.
C30_UsageFetcherLikeDeviceFetcher ==
    (fetch.fn = "get_all_usage" /\ fetch.pc = "done" /\ ~fetch.truncated) =>
        LET sim == get_all_simcards_over(fetch.served, <<>>, 0)
        IN  /\ sim.used = Len(fetch.served)
            /\ IF fetch.ret = "returned"
               THEN /\ sim.done
                    /\ fetch.outcome = "returned"
                    /\ fetch.result = sim.items
               ELSE /\ ~sim.done
                    /\ fetch.outcome = fetch.ret

\* C27: a service call (activate, deactivate, send message) for identifier i
\* is delegated only to a registered coordinator whose device mapping holds
\* i; it causes at most one remote call, also when several registered
\* coordinators hold i, and none when no registered coordinator holds i.
C27_ServiceDelegatesToOneHolder ==
    svc.kind # "none" =>
        /\ Len(svc.calls) <= 1
        /\ \A k \in 1..Len(svc.calls) :
              /\ \E j \in 1..Len(svc.matches) : svc.matches[j] = svc.calls[k].entry
              /\ svc.calls[k].iccid = svc.iccid
              /\ svc.calls[k].fn = ServiceFn(svc.kind)
        /\ svc.matches = <<>> => (svc.calls = <<>> /\ svc.logged)

\* a service call has returned after one remote call although two registered
\* coordinators held the identifier
C27_Witness ==
    /\ svc.pc = "done"
    /\ svc.outcome = "returned"
    /\ Len(svc.matches) = 2
    /\ Len(svc.calls) = 1

\* C28: when the credential probe is answered with 401, validate_api_key
\* returns false, the flow shows the credential step again with the
\* invalid_auth error and no entry is created; validate_api_key returns
\* false in no other case.
C28_AuthErrorStopsSetup ==
    (flow.pc = "idle" /\ flow.valid # "none") =>
        LET last == flow.probes[Len(flow.probes)]
        IN  /\ last = 401 => /\ flow.valid = "false"
                             /\ flow.step = "user"
                             /\ flow.errors = "invalid_auth"
                             /\ ~flow.entry
            /\ flow.valid = "false" => last = 401

\* the probe was answered with 401 a second time and the flow is on the
\* credential step without an entry
C28_Witness ==
    /\ flow.pc = "idle"
    /\ flow.probes = <<401, 401>>
    /\ flow.valid = "false"
    /\ flow.step = "user"
    /\ ~flow.entry

----------------------------------------------------------------------------
(* Properties of the paginated fetch, of the session and of the transport *)

\* the value under the first key of keys that is a key of the response
RECURSIVE FirstPresent(_, _)
FirstPresent(response, keys) ==
    IF keys = <<>> THEN [arr |-> <<>>]
    ELSE IF Has(response, Head(keys)) THEN response[Head(keys)]
    ELSE FirstPresent(response, Tail(keys))

\* the items of an item container
ItemsOf(container) ==
    IF "arr" \in DOMAIN container THEN container.arr ELSE <<container.one>>

\* the device fetch has returned after a single page, an object
OnePageFetched ==
    /\ fetch.fn = "get_all_simcards"
    /\ fetch.pc = "done"
    /\ fetch.outcome = "returned"
    /\ Len(fetch.served) = 1
    /\ "obj" \in DOMAIN fetch.served[1]

\* C31: the items of a response object of the device-list fetcher are those
\* under the first alias, in the order data, simcards, items, results, that
\* is a key of the object, also when the value under that key is an empty
\* list.
C31_FirstPresentAliasWins ==
    OnePageFetched
        => fetch.result = ItemsOf(FirstPresent(fetch.served[1].obj, ItemAliases))

\* the cursor aliases of a page that carry a value
CursorsOf(page) ==
    IF "obj" \in DOMAIN page
    THEN {page.obj[k] : k \in {CursorAliases[i] : i \in 1..Len(CursorAliases)}
                                \cap DOMAIN page.obj}
    ELSE {}

\* C32: in one paginated fetch the first request carries no cursor, and every
\* later request carries exactly the cursor returned by the page immediately
\* before it.
C32_CursorChain ==
    fetch.sent # <<>> =>
        /\ fetch.sent[1] = ""
        /\ \A k \in 2..Len(fetch.sent) :
              /\ fetch.sent[k] # ""
              /\ k - 1 <= Len(fetch.served) => fetch.sent[k] \in CursorsOf(fetch.served[k - 1])

\* C32 witness: a third request has been sent with the cursor of the second
\* page, which differs from the cursor of the first
C32_Witness ==
    /\ Len(fetch.sent) >= 3
    /\ Len(fetch.served) >= 2
    /\ fetch.sent[3] \in CursorsOf(fetch.served[2])
    /\ fetch.sent[3] # fetch.sent[2]

\* C33: a page that is neither an array nor an object ends the fetch without
\* an exception, and the fetch returns the items of the earlier pages.
C33_UnexpectedPageEndsFetch ==
    (/\ fetch.pc = "done"
     /\ fetch.ret = "returned"
     /\ ~fetch.truncated
     /\ fetch.served # <<>>
     /\ "other" \in DOMAIN fetch.served[Len(fetch.served)])
        => /\ fetch.outcome = "returned"
           /\ fetch.result = fetch.items

\* C36: over its requests the client acquires at most one session and sends
\* every request over it; the teardown releases the session the client
\* created; a session supplied from outside is the only one used and is
\* never closed.
C36_OneSessionReused ==
    /\ client.created <= 1
    /\ Cardinality(client.used) <= 1
    /\ "outside" \notin client.closed
    /\ client.torn => client.open = {} /\ client.closed = client.used \ {"outside"}
    /\ client._session = "outside"
          => client.created = 0 /\ client.used \subseteq {"outside"} /\ client.closed = {}

\* C36 witness: two requests of one fetch went over the session the client
\* created, and the teardown closed it
C36_Witness ==
    /\ client.torn
    /\ client.used = {"own1"}
    /\ client.closed = {"own1"}
    /\ fetch.pc = "done"
    /\ Len(fetch.sent) >= 2

\* a cycle has completed against the remote account as it is, some of whose
\* endpoints fail at the network level
NetFailureCycle ==
    /\ cyc.result \in {"success", "failed"}
    /\ remote.down # {}
    /\ remote.response \in NetFailures

\* C34: a network-level failure of a request is an API error to the cycle:
\* on the device list the cycle fails with it, on usage, account and balance
\* the section is degraded and the cycle succeeds.
C34_NetworkFailureIsApiError ==
    NetFailureCycle =>
        IF "simcards" \in remote.down
        THEN cyc.result = "failed" /\ cyc.simcards = "err"
        ELSE /\ cyc.result = "success"
             /\ "usage" \in remote.down => cyc.usage = "err"
             /\ "account" \in remote.down => data.account = EmptyDict
             /\ "balance" \in remote.down => cyc.balance = "err"

\* C37: whenever no refresh cycle is in flight the accessors return the
\* sections of the published snapshot, and empty mappings before the first
\* publication.
C37_AccessorsAgreeWithSnapshot ==
    InFlight = {} =>
        IF data = None
        THEN /\ get_all_simcards = EmptyDict
             /\ get_account_data = EmptyDict
             /\ get_balance = EmptyDict
        ELSE /\ get_all_simcards = data.simcards
             /\ get_account_data = data.account
             /\ get_balance = data.balance

\* C35: the totals a cycle publishes are those of its own device list,
\* counted from zero: they do not depend on the usage merged in, nor on the
\* devices or totals of an earlier cycle, and sms_total is sms_sent +
\* sms_received.
C35_TotalsFromThisCycleOnly ==
    cyc.result = "success" =>
        /\ data.totals = Totals(BuildDict(remote.devices, EmptyDict))
        /\ data.totals.sms_total = data.totals.sms_sent + data.totals.sms_received

\* C35 witness: a cycle after a successful one has published the counters of
\* its single reporting device
C35_Witness ==
    /\ cyc.result = "success"
    /\ cyc.prev = "success"
    /\ data.totals.sms_sent = 1
    /\ data.totals.sms_received = 2
    /\ data.totals.sms_total = 3

----------------------------------------------------------------------------
(* The activation switch (switch.py) and the agreement of the components *)

\* SimbaseActivationSwitch.is_on for the record get_simcard returned:
\* status = sim_data.get("status") or sim_data.get("state"); None when that
\* is None, else whether status.lower() is active or enabled
is_on(sim_data) ==
    LET status == IF Truthy(sim_data, "status") THEN sim_data["status"]
                  ELSE IF Has(sim_data, "state") THEN sim_data["state"]
                  ELSE "None"
    IN  IF status = "None" THEN "None"
        ELSE IF Lower(status) \in {"active", "enabled"} THEN "True"
        ELSE "False"

\* C38: for every device of a published snapshot the activation switch is on
\* exactly when the totals count the device as active, and exactly when
\* deactivate_all_simcards would call for it, also for a record whose state
\* and status differ or that has neither.
C38_ComponentsClassifyAlike ==
    (InFlight = {} /\ cyc.result = "success") =>
        \A i \in DOMAIN data.simcards :
            /\ (is_on(get_simcard(i)) = "True") <=> IsActive(data.simcards[i])
            /\ IsActive(data.simcards[i]) <=> deactivate_all_matches(data.simcards[i])

\* C39: every device a refresh cycle would place in the snapshot and count
\* as active, whichever identifier alias its record uses, gets a call of a
\* deactivate_all run over the same device list.
C39_BulkTargetsEveryActiveDevice ==
    (BulkDone /\ oper.kind = "deactivate_all" /\ oper.listed = "ok") =>
        LET sims == BuildDict(oper.list, EmptyDict)
        IN  \A i \in DOMAIN sims :
                IsActive(sims[i]) => \E k \in 1..Len(oper.calls) : oper.calls[k].iccid = i

\* the ids of the registered coordinators
Registered == {entries[i].id : i \in 1..Len(entries)}

\* the entries whose last setup completed its first refresh and that have
\* not been unloaded successfully since
SetUp == {id \in EntryIds : setups[id] \in {"set_up", "unload_failed"}}

\* C40: the registry holds an entry exactly when its setup completed a
\* successful first refresh and it has not been successfully unloaded since
\* (an entry whose platform unload failed stays registered), and a service
\* handler issues its call only to a coordinator of such an entry.
C40_RegistryFollowsSetups ==
    /\ [](Registered = SetUp)
    /\ [][(svc'.calls # svc.calls /\ svc'.calls # <<>>)
              => \A k \in 1..Len(svc'.calls) : svc'.calls[k].entry \in SetUp]_vars

\* C40 witness: one entry failed its first refresh, one was unloaded, and a
\* command has been delegated to the coordinator of a third, whose unload
\* failed
C40_Witness ==
    /\ \E a, b, c \in EntryIds :
          /\ setups[a] = "refresh_failed"
          /\ setups[b] = "unloaded"
          /\ setups[c] = "unload_failed"
          /\ svc.calls # <<>>
          /\ svc.calls[1].entry = c
    /\ svc.pc = "remote"

====
